---- MODULE Spec2Model ----
(***************************************************************************)
(* Model of the read-ci-config action: validation of the CI configuration  *)
(* document (CIConfig and its sub-models), the build and upload matrix     *)
(* builders and the main routine that writes the outputs.                  *)
(*                                                                         *)
(* Python strings are modelled as sequences of one-character strings, so   *)
(* that replace, join, startswith, removeprefix, sorted and the base       *)
(* pattern are computed character by character.                            *)
(***************************************************************************)
EXTENDS Integers, Sequences, FiniteSets, TLC

\* ------------------------------------------------------------------ strings

\* The characters used by the model, in code point order.
Alphabet ==
    << "\n", "*", ",", "-", ".", "/",
       "0", "1", "2", "3", "4", "5", "6", "7", "8", "9",
       ":", "@", "A", "B", "E", "G", "H", "I", "K", "N", "O", "P", "R", "T",
       "U", "X", "_",
       "a", "b", "c", "d", "e", "f", "g", "h", "i", "j", "k", "l", "m",
       "n", "o", "p", "q", "r", "s", "t", "u", "v", "w", "x", "y", "z" >>

\* ord(c): the position of the character in code point order.
Ord(c) == CHOOSE i \in 1..Len(Alphabet) : Alphabet[i] = c

Digits == {"0", "1", "2", "3", "4", "5", "6", "7", "8", "9"}

\* a < b for Python str: lexicographic on code points.
RECURSIVE StrLess(_, _)
StrLess(a, b) ==
    IF b = <<>> THEN FALSE
    ELSE IF a = <<>> THEN TRUE
    ELSE IF Head(a) = Head(b) THEN StrLess(Tail(a), Tail(b))
    ELSE Ord(Head(a)) < Ord(Head(b))

\* Insert x into the sorted list s, after the elements equal to it.
RECURSIVE InsertSorted(_, _)
InsertSorted(x, s) ==
    IF s = <<>> THEN <<x>>
    ELSE IF StrLess(x, Head(s)) THEN <<x>> \o s
    ELSE <<Head(s)>> \o InsertSorted(x, Tail(s))

\* sorted(list): keeps repeated elements.
RECURSIVE sorted(_)
sorted(s) ==
    IF s = <<>> THEN <<>>
    ELSE InsertSorted(s[Len(s)], sorted(SubSeq(s, 1, Len(s) - 1)))

\* The elements of a set in some order.
RECURSIVE SetToSeq(_)
SetToSeq(S) ==
    IF S = {} THEN <<>>
    ELSE LET x == CHOOSE y \in S : TRUE IN <<x>> \o SetToSeq(S \ {x})

\* The distinct elements in reverse lexicographic order.
RECURSIVE reverse_sorted_set(_)
reverse_sorted_set(S) ==
    IF S = {} THEN <<>>
    ELSE LET x == CHOOSE y \in S : \A z \in S \ {y} : StrLess(z, y)
         IN <<x>> \o reverse_sorted_set(S \ {x})

\* sorted(set): the distinct elements in lexicographic order.
sorted_set(S) == sorted(SetToSeq(S))

\* frozenset(list)
Range(s) == {s[i] : i \in 1..Len(s)}

\* sep.join(list)
RECURSIVE join(_, _)
join(sep, l) ==
    IF l = <<>> THEN <<>>
    ELSE IF Len(l) = 1 THEN l[1]
    ELSE l[1] \o sep \o join(sep, Tail(l))

\* s.replace(old, new) for one-character old and new.
str_replace(s, old, new) ==
    [i \in 1..Len(s) |-> IF s[i] = old THEN new ELSE s[i]]

\* s.startswith(p)
startswith(s, p) == Len(s) >= Len(p) /\ SubSeq(s, 1, Len(p)) = p

\* s.removeprefix(p): removes one leading occurrence of p, if any.
removeprefix(s, p) ==
    IF startswith(s, p) THEN SubSeq(s, Len(p) + 1, Len(s)) ELSE s

\* c in s
contains(s, c) == \E i \in 1..Len(s) : s[i] = c

\* os.path.dirname(p): everything before the last "/", or "" without one.
dirname(p) ==
    IF contains(p, "/")
    THEN LET i == CHOOSE j \in 1..Len(p) :
                     p[j] = "/" /\ \A k \in (j + 1)..Len(p) : p[k] # "/"
         IN SubSeq(p, 1, i - 1)
    ELSE <<>>

\* --------------------------------------------------------- document values

\* Values of the parsed YAML document, tagged with their Python type.
Null == [t |-> "null"]
Str(s) == [t |-> "str", s |-> s]
Num(n) == [t |-> "int", n |-> n]
List(l) == [t |-> "list", l |-> l]
Map(m) == [t |-> "map", m |-> m]

\* A validation error: the message and the values it names.
Err(msg, args) == [msg |-> msg, args |-> args]

\* The outcome of validating one value: the errors, and the value when there
\* are none.
Valid(v) == [errs |-> <<>>, val |-> v]
Invalid(errs) == [errs |-> errs, val |-> Null]

\* pydantic's error for a required field that the mapping lacks.
Missing(name) == Err("Field required", <<name>>)

\* model_config = ConfigDict(extra="forbid"): one error per undeclared key.
ExtraForbidden(m, declared) ==
    LET extra == SetToSeq(DOMAIN m \ declared)
    IN [i \in 1..Len(extra) |-> Err("Extra inputs are not permitted", <<extra[i]>>)]

\* pydantic's default, extra="ignore": undeclared keys are dropped silently.
ExtraIgnored(m, declared) == <<>>

\* ------------------------------------------------------------- auth.py

SecretsPrefix == <<"s", "e", "c", "r", "e", "t", "s", ".">>

\* A credential validator that checks the prefix and does not strip it.
ensure_secret_format_keep(v) ==
    IF v.t # "str" \/ v.s = <<>> \/ ~startswith(v.s, SecretsPrefix)
    THEN Invalid(<<Err("Credential name must start with 'secrets.'", <<>>)>>)
    ELSE Valid(v.s)

\* BasicAuth._ensure_secret_format / BearerAuth._ensure_secret_format, after
\* the field's str type check.
ensure_secret_format(v) ==
    IF v.t # "str"
    THEN Invalid(<<Err("Input should be a valid string", <<>>)>>)
    ELSE IF v.s = <<>>
    THEN Invalid(<<Err("Credential name must be a non-empty string.", <<>>)>>)
    ELSE IF ~startswith(v.s, SecretsPrefix)
    THEN Invalid(<<Err("Credential name must start with 'secrets.'", <<>>)>>)
    ELSE Valid(removeprefix(v.s, SecretsPrefix))

\* A plain str field (uri, region).
str_field(v) ==
    IF v.t # "str"
    THEN Invalid(<<Err("Input should be a valid string", <<>>)>>)
    ELSE Valid(v.s)

\* AuthType
AuthType == {"basic", "bearer", "ecr", "ecr-public"}

\* An AUTH_MODELS that maps every method but bearer to BasicAuth.
AuthFields_basic(method) ==
    IF method = "bearer" THEN <<"token">> ELSE <<"username", "password">>

\* The fields of the model class AUTH_MODELS[method], in declaration order.
AuthFields(method) ==
    CASE method = "basic" -> <<"username", "password">>
      [] method = "bearer" -> <<"token">>
      [] method = "ecr" -> <<"username", "password", "region">>
      [] method = "ecr-public" -> <<"username", "password", "region">>

\* Validation of one field of an auth model.
AuthField(name, v) ==
    IF name = "region" THEN str_field(v) ELSE ensure_secret_format(v)

RECURSIVE AuthFieldErrs(_, _)
AuthFieldErrs(m, fields) ==
    IF fields = <<>> THEN <<>>
    ELSE (IF Head(fields) \in DOMAIN m
          THEN AuthField(Head(fields), m[Head(fields)]).errs
          ELSE <<Missing(Head(fields))>>)
         \o AuthFieldErrs(m, Tail(fields))

\* model_cls(**v) for model_cls = AUTH_MODELS[method]: BasicAuth, BearerAuth,
\* ECRAuth or ECRPublicAuth.  These classes set no model_config, so keys that
\* are not fields are ignored.
AuthModel(method, m) ==
    LET fields == AuthFields(method)
        errs == AuthFieldErrs(m, fields) \o ExtraIgnored(m, Range(fields))
    IN IF errs # <<>> THEN Invalid(errs)
       ELSE Valid([cls |-> method,
                   fields |-> [f \in Range(fields) |-> AuthField(f, m[f]).val]])

\* ------------------------------------------------ process_ci_config.py

esm_apps == <<"e", "s", "m", "-", "a", "p", "p", "s">>
esm_infra == <<"e", "s", "m", "-", "i", "n", "f", "r", "a">>
fips_updates == <<"f", "i", "p", "s", "-", "u", "p", "d", "a", "t", "e", "s">>
fips == <<"f", "i", "p", "s">>
fips_preview == <<"f", "i", "p", "s", "-", "p", "r", "e", "v", "i", "e", "w">>
ros == <<"r", "o", "s">>
ros_updates == <<"r", "o", "s", "-", "u", "p", "d", "a", "t", "e", "s">>

UBUNTU_PRO_SERVICES ==
    {esm_apps, esm_infra, fips_updates, fips, fips_preview, ros, ros_updates}

\* A GHCRConfig whose cve_scan validator accepts every value.
ensure_cve_scan_any(v, upload) == <<>>

\* GHCRConfig._ensure_cve_scan: the errors it raises; upload is
\* info.data.get("upload", False).
ensure_cve_scan(v, upload) ==
    IF v /\ ~upload
    THEN <<Err("cve-scan can not be true if upload is false", <<>>)>>
    ELSE <<>>

\* GHCRConfig(**m)
GHCRConfig(m) ==
    LET declared == {"upload", "cve-scan"}
        e_upload == IF "upload" \in DOMAIN m THEN <<>> ELSE <<Missing("upload")>>
        e_cve ==
            IF "cve-scan" \notin DOMAIN m THEN <<Missing("cve-scan")>>
            ELSE ensure_cve_scan(m["cve-scan"],
                                 IF "upload" \in DOMAIN m THEN m["upload"] ELSE FALSE)
        errs == e_upload \o e_cve \o ExtraForbidden(m, declared)
    IN IF errs # <<>> THEN Invalid(errs)
       ELSE Valid([upload |-> m["upload"], cve_scan |-> m["cve-scan"]])

\* RegistrySecretEntry._ensure_method_known
ensure_method_known(v) ==
    IF v \in AuthType THEN Valid(v)
    ELSE Invalid(<<Err("Invalid auth method. Supported methods are: basic, bearer, ecr, ecr-public.", <<v>>)>>)

\* RegistrySecretEntry._ensure_config_type; method is info.data.get("method"),
\* Null when the method field did not validate, Str(method) otherwise.
ensure_config_type(v, method) ==
    IF v.t = "null" THEN Invalid(<<Err("Auth config must be provided.", <<>>)>>)
    ELSE IF v.t # "map" THEN Invalid(<<Err("Auth config must be a dictionary.", <<>>)>>)
    ELSE IF method.t = "null"
    THEN Invalid(<<Err("Unsupported auth method. Supported methods are: basic, bearer, ecr, ecr-public.", <<>>)>>)
    ELSE AuthModel(method.s, v.m)

\* RegistrySecretEntry(**m)
RegistrySecretEntry(m) ==
    LET declared == {"method", "config"}
        r_method == IF "method" \in DOMAIN m THEN ensure_method_known(m["method"])
                    ELSE Invalid(<<Missing("method")>>)
        method == IF r_method.errs = <<>> THEN Str(r_method.val) ELSE Null
        r_config == IF "config" \in DOMAIN m THEN ensure_config_type(m["config"], method)
                    ELSE Invalid(<<Missing("config")>>)
        errs == r_method.errs \o r_config.errs \o ExtraForbidden(m, declared)
    IN IF errs # <<>> THEN Invalid(errs)
       ELSE Valid([method |-> r_method.val, config |-> r_config.val])

\* An _unpack_auth_list that takes the first entry of any non-empty list.
unpack_first(v) ==
    IF v.t # "list" THEN Invalid(<<Err("Auth must be provided as a list.", <<>>)>>)
    ELSE IF Len(v.l) = 0
    THEN Invalid(<<Err("Auth list must contain exactly one entry.", <<>>)>>)
    ELSE IF v.l[1].t # "map"
    THEN Invalid(<<Err("Input should be a valid dictionary or instance of RegistrySecretEntry", <<>>)>>)
    ELSE RegistrySecretEntry(v.l[1].m)

\* RegistryConfigEntry._unpack_auth_list, followed by the validation of the
\* unpacked entry as a RegistrySecretEntry.
unpack_auth_list(v) ==
    IF v.t # "list" THEN Invalid(<<Err("Auth must be provided as a list.", <<>>)>>)
    ELSE IF Len(v.l) # 1
    THEN Invalid(<<Err("Auth list must contain exactly one entry.", <<>>)>>)
    ELSE IF v.l[1].t # "map"
    THEN Invalid(<<Err("Input should be a valid dictionary or instance of RegistrySecretEntry", <<>>)>>)
    ELSE RegistrySecretEntry(v.l[1].m)

\* RegistryConfigEntry(**m)
RegistryConfigEntry(m) ==
    LET declared == {"uri", "auth"}
        r_uri == IF "uri" \in DOMAIN m THEN str_field(m["uri"])
                 ELSE Invalid(<<Missing("uri")>>)
        r_auth == IF "auth" \in DOMAIN m THEN unpack_auth_list(m["auth"])
                  ELSE Invalid(<<Missing("auth")>>)
        errs == r_uri.errs \o r_auth.errs \o ExtraForbidden(m, declared)
    IN IF errs # <<>> THEN Invalid(errs)
       ELSE Valid([uri |-> r_uri.val, auth |-> r_auth.val])

\* A _check_pro_services that names the last invalid service of the list.
check_pro_services_last(v) ==
    LET invalid_services == SelectSeq(v, LAMBDA service : service \notin UBUNTU_PRO_SERVICES)
    IN IF invalid_services # <<>>
       THEN Invalid(<<Err("Invalid Ubuntu Pro service",
                          <<invalid_services[Len(invalid_services)]>>)>>)
       ELSE Valid(v)

\* ImageEntry._check_pro_services
check_pro_services(v) ==
    LET invalid_services == SelectSeq(v, LAMBDA service : service \notin UBUNTU_PRO_SERVICES)
    IN IF invalid_services # <<>>
       THEN Invalid(<<Err("Invalid Ubuntu Pro service", <<invalid_services[1]>>)>>)
       ELSE Valid(v)

\* ImageEntry(**m); pro_services may be given by its alias or by its name.
ImageEntry(m) ==
    LET declared == {"directory", "pro-services", "pro_services", "registries"}
        e_dir == IF "directory" \in DOMAIN m THEN <<>> ELSE <<Missing("directory")>>
        r_pro == IF "pro-services" \in DOMAIN m THEN check_pro_services(m["pro-services"])
                 ELSE IF "pro_services" \in DOMAIN m THEN check_pro_services(m["pro_services"])
                 ELSE Valid(<<>>)
        regs == IF "registries" \in DOMAIN m THEN m["registries"] ELSE <<>>
        errs == e_dir \o r_pro.errs \o ExtraForbidden(m, declared)
    IN IF errs # <<>> THEN Invalid(errs)
       ELSE Valid([directory |-> m["directory"], pro_services |-> r_pro.val,
                   registries |-> regs])

\* A version validator that accepts every integer.
ensure_version_any(v) == Valid(v)

\* CIConfig._ensure_version_supported
ensure_version_supported(v) ==
    IF v # 1
    THEN Invalid(<<Err("Only version 1 of the CI configuration is supported.", <<>>)>>)
    ELSE Valid(v)

\* A registries validator that leaves a null in place.
ensure_registries_dict_keep(v) == v

\* CIConfig._ensure_registries_dict on the registries field.
ensure_registries_dict(v) == IF v.t = "null" THEN Map(<<>>) ELSE v

\* CIConfig._ensure_images_list (which runs before _ensure_registries_dict on
\* the images field).
ensure_images_list(v) == IF v.t = "null" THEN List(<<>>) ELSE v

\* The errors of the entries of the registries mapping, entry by entry.
RECURSIVE RegistryErrs(_, _)
RegistryErrs(m, names) ==
    IF names = <<>> THEN <<>>
    ELSE RegistryConfigEntry(m[Head(names)]).errs \o RegistryErrs(m, Tail(names))

\* Validation of the registries field as dict[str, RegistryConfigEntry].
RegistriesField(v) ==
    IF ensure_registries_dict(v).t # "map"
    THEN Invalid(<<Err("Input should be a valid dictionary", <<>>)>>)
    ELSE LET m == ensure_registries_dict(v).m
             errs == RegistryErrs(m, SetToSeq(DOMAIN m))
         IN IF errs # <<>> THEN Invalid(errs)
            ELSE Valid([n \in DOMAIN m |-> RegistryConfigEntry(m[n]).val])

\* The errors of the entries of the images list, entry by entry.
RECURSIVE ImageErrs(_)
ImageErrs(l) ==
    IF l = <<>> THEN <<>> ELSE ImageEntry(Head(l)).errs \o ImageErrs(Tail(l))

\* Validation of the images field as list[ImageEntry], before the "after"
\* validators.
ImagesField(v) ==
    IF ensure_images_list(v).t # "list"
    THEN Invalid(<<Err("Input should be a valid list", <<>>)>>)
    ELSE LET l == ensure_images_list(v).l
             errs == ImageErrs(l)
         IN IF errs # <<>> THEN Invalid(errs)
            ELSE Valid([i \in 1..Len(l) |-> ImageEntry(l[i]).val])

\* A cross-reference check that finds no undefined registry.
none_undefined(regs, registry_keys) == <<>>

\* The first registry of the list that is not among the keys, if any.
RECURSIVE FirstUndefined(_, _)
FirstUndefined(regs, registry_keys) ==
    IF regs = <<>> THEN <<>>
    ELSE IF Head(regs) \notin registry_keys THEN <<Head(regs)>>
    ELSE FirstUndefined(Tail(regs), registry_keys)

\* CIConfig._ensure_image_registries_exist: the error of the first image, in
\* list order, that references an undefined registry.
RECURSIVE ensure_image_registries_exist(_, _)
ensure_image_registries_exist(v, registry_keys) ==
    IF v = <<>> THEN <<>>
    ELSE LET image == Head(v)
             bad == FirstUndefined(image.registries, registry_keys)
         IN IF bad # <<>>
            THEN <<Err("Registry in image is not defined in registries.",
                       <<bad[1], image.directory>>)>>
            ELSE ensure_image_registries_exist(Tail(v), registry_keys)

\* An expansion that takes every directory that contains "*" for the wildcard.
never_misused(directory) == FALSE

\* "*" in image.directory and image.directory != "*"
wildcard_misused(directory) == contains(directory, "*") /\ directory # <<"*">>

\* The entries appended for one wildcard image: one per path that glob
\* returned.
WildcardEntries(image, dirs) ==
    [i \in 1..Len(dirs) |->
        [directory |-> dirname(dirs[i]), pro_services |-> <<>>,
         registries |-> image.registries]]

\* CIConfig._expand_image_directories.  dirs is what
\* glob.glob("**/rockcraft.yaml", recursive=True) returns; globs counts the
\* calls made to it.
RECURSIVE expand_image_directories(_, _, _, _)
expand_image_directories(v, dirs, expanded_images, globs) ==
    IF v = <<>> THEN [errs |-> <<>>, val |-> expanded_images, globs |-> globs]
    ELSE LET image == Head(v) IN
         IF contains(image.directory, "*")
         THEN IF wildcard_misused(image.directory)
              THEN [errs |-> <<Err("Wildcard '*' must be the only character in directory", <<>>)>>,
                    val |-> Null, globs |-> globs]
              ELSE expand_image_directories(Tail(v), dirs,
                       expanded_images \o WildcardEntries(image, dirs), globs + 1)
         ELSE expand_image_directories(Tail(v), dirs,
                  Append(expanded_images, image), globs)

\* The "after" validators of the images field with the expansion made before
\* the cross-reference check.
ImagesAfter_expand_first(r_list, registry_keys, dirs) ==
    IF r_list.errs # <<>> THEN [errs |-> r_list.errs, val |-> Null, globs |-> 0]
    ELSE LET e_exist == ensure_image_registries_exist(r_list.val, registry_keys)
             expanded == expand_image_directories(r_list.val, dirs, <<>>, 0)
         IN IF e_exist # <<>>
            THEN [errs |-> e_exist, val |-> Null, globs |-> expanded.globs]
            ELSE expanded

\* The "after" validators of the images field, in definition order:
\* _ensure_image_registries_exist, then _expand_image_directories.  They run
\* only when every entry of the list validated as an ImageEntry.
ImagesAfter(r_list, registry_keys, dirs) ==
    IF r_list.errs # <<>> THEN [errs |-> r_list.errs, val |-> Null, globs |-> 0]
    ELSE LET e_exist == ensure_image_registries_exist(r_list.val, registry_keys)
         IN IF e_exist # <<>> THEN [errs |-> e_exist, val |-> Null, globs |-> 0]
            ELSE expand_image_directories(r_list.val, dirs, <<>>, 0)

\* The model built from the validated fields, or their errors.
Assemble(r_version, r_ghcr, r_registries, r_images, e_extra) ==
    LET errs == r_version.errs \o r_ghcr.errs \o r_registries.errs
                \o r_images.errs \o e_extra
    IN [errs |-> errs,
        val |-> IF errs # <<>> THEN Null
                ELSE [version |-> r_version.val, ghcr |-> r_ghcr.val,
                      registries |-> r_registries.val, images |-> r_images.val],
        globs |-> r_images.globs]

\* info.data.get("registries", {}).keys()
RegistryKeys(r_registries) ==
    IF r_registries.errs = <<>> THEN DOMAIN r_registries.val ELSE {}

VersionField(doc) ==
    IF "version" \in DOMAIN doc THEN ensure_version_supported(doc["version"])
    ELSE Invalid(<<Missing("version")>>)

GhcrField(doc) ==
    IF "ghcr" \in DOMAIN doc THEN GHCRConfig(doc["ghcr"])
    ELSE Invalid(<<Missing("ghcr")>>)

RegistriesOf(doc) ==
    IF "registries" \in DOMAIN doc THEN RegistriesField(doc["registries"])
    ELSE Invalid(<<Missing("registries")>>)

ImagesOf(doc) ==
    IF "images" \in DOMAIN doc THEN ImagesField(doc["images"])
    ELSE Invalid(<<Missing("images")>>)

\* CIConfig(**doc): the fields in declaration order, then the undeclared keys.
CIConfig(doc, dirs) ==
    Assemble(VersionField(doc), GhcrField(doc), RegistriesOf(doc),
             ImagesAfter(ImagesOf(doc), RegistryKeys(RegistriesOf(doc)), dirs),
             ExtraForbidden(doc, {"version", "ghcr", "registries", "images"}))

\* CIConfig.artifact_name
artifact_name(dir) == str_replace(dir, "/", "-")

bare == <<"b", "a", "r", "e">>
devel == <<"d", "e", "v", "e", "l">>
latest == <<"l", "a", "t", "e", "s", "t">>
edge == <<"e", "d", "g", "e">>

\* The search without the "$" anchor: the first version token anywhere in base.
base_version_id_unanchored(base) ==
    LET tok(t) == \/ t = devel
                  \/ /\ t[1] \in Digits /\ t[2] \in Digits /\ t[3] \in {".", "@"}
                     /\ t[4] \in Digits /\ t[5] \in Digits
        hits == {i \in 1..(Len(base) - 4) : tok(SubSeq(base, i, i + 4))}
    IN IF hits = {} THEN <<>>
       ELSE LET i == CHOOSE h \in hits : \A g \in hits : h <= g
            IN <<SubSeq(base, i, i + 4)>>

\* re.search(r"(\d{2}(\.|@)\d{2}|devel)$", base): the matched group in a
\* one-element list, or the empty list without a match.  "$" matches at the
\* end of the string and before a newline that ends it.
base_version_id(base) ==
    LET b == IF base # <<>> /\ base[Len(base)] = "\n"
             THEN SubSeq(base, 1, Len(base) - 1) ELSE base
        n == Len(b)
        t == SubSeq(b, n - 4, n)
    IN IF n < 5 THEN <<>>
       ELSE IF t = devel THEN <<t>>
       ELSE IF /\ t[1] \in Digits /\ t[2] \in Digits /\ t[3] \in {".", "@"}
               /\ t[4] \in Digits /\ t[5] \in Digits
       THEN <<t>>
       ELSE <<>>

\* An image_name_and_tag that reads build-base whenever the file has one.
prefer_build_base(rockcraft) ==
    IF "build-base" \in DOMAIN rockcraft THEN rockcraft["build-base"] ELSE rockcraft["base"]

\* base = rockcraft["base"]; if base == "bare": base = rockcraft["build-base"]
effective_base(rockcraft) ==
    IF rockcraft["base"] = bare THEN rockcraft["build-base"] ELSE rockcraft["base"]

\* An image_name_and_tag that never prints the warning.
never_warns(version) == FALSE

\* if version == "latest": print("::warning ...")
warns(version) == version = latest

\* An image_name_and_tag that answers with a placeholder when the metadata
\* cannot be read.
image_name_and_tag_default(image_directory, rock) ==
    [errs |-> <<>>, val |-> <<image_directory, edge>>, warn |-> FALSE]

\* CIConfig.image_name_and_tag.  rock maps a directory to the content of its
\* rockcraft.yaml (a mapping) or to Null when the file cannot be opened.
image_name_and_tag(image_directory, rock) ==
    IF image_directory \notin DOMAIN rock \/ rock[image_directory].t = "null"
    THEN [errs |-> <<Err("FileNotFoundError", <<image_directory>>)>>, val |-> Null, warn |-> FALSE]
    ELSE LET rockcraft == rock[image_directory].m
             need == IF "base" \in DOMAIN rockcraft /\ rockcraft["base"] = bare
                     THEN <<"name", "version", "base", "build-base">>
                     ELSE <<"name", "version", "base">>
             absent == SelectSeq(need, LAMBDA k : k \notin DOMAIN rockcraft)
         IN IF absent # <<>>
            THEN [errs |-> <<Err("KeyError", <<absent[1]>>)>>, val |-> Null, warn |-> FALSE]
            ELSE LET name == rockcraft["name"]
                     version == rockcraft["version"]
                     channel == edge
                     base == effective_base(rockcraft)
                     match == base_version_id(base)
                 IN IF match = <<>>
                    THEN [errs |-> <<Err("Base in rockcraft.yaml does not match the expected pattern.",
                                         <<base, image_directory>>)>>,
                          val |-> Null, warn |-> FALSE]
                    ELSE [errs |-> <<>>,
                          val |-> <<name, version \o <<"-">> \o match[1] \o <<"_">> \o channel>>,
                          warn |-> warns(version)]

\* key = (image.directory, frozenset(image.pro_services))
group_key(image) == <<image.directory, Range(image.pro_services)>>

\* A build_matrix that never skips an image whose key it has already seen.
never_added(key, added_images) == FALSE

\* key in added_images
already_added(key, added_images) == key \in added_images

\* A build_matrix without the collision check.
never_conflicts(name, added_artifacts) == FALSE

\* artifact_name in added_artifacts
conflicts(name, added_artifacts) == name \in DOMAIN added_artifacts

\* The artifact suffix of build_matrix: pro_services is the sorted list.
artifact_suffix(pro_services) ==
    IF pro_services # <<>> THEN <<"-">> \o join(<<"-">>, pro_services) ELSE <<>>

\* One row of the build matrix.
BuildRow(name, tag, directory, pro_services, artifact, run_tests) ==
    [k \in {"name", "tag", "directory", "pro-services", "artifact-name", "run-tests"} |->
        CASE k = "name" -> Str(name)
          [] k = "tag" -> Str(tag)
          [] k = "directory" -> Str(directory)
          [] k = "pro-services" -> Str(join(<<",">>, pro_services))
          [] k = "artifact-name" -> Str(artifact)
          [] k = "run-tests" -> [t |-> "bool", b |-> run_tests]]

\* A build_matrix that puts each new row in front of the rows it has.
include_prepend(include, row) == <<row>> \o include

\* matrix["include"].append(row)
include_append(include, row) == Append(include, row)

\* The loop of CIConfig.build_matrix over the images that remain.  include is
\* matrix["include"]; keys lists the key of the group of each row; warnings
\* counts the warning lines printed.
RECURSIVE build_loop(_, _, _, _, _, _, _, _)
build_loop(images, rock, spread, include, keys, added_artifacts, added_images, warnings) ==
    IF images = <<>>
    THEN [errs |-> <<>>, include |-> include, keys |-> keys, warnings |-> warnings]
    ELSE LET image == Head(images)
             key == group_key(image)
         IN IF already_added(key, added_images)
            THEN build_loop(Tail(images), rock, spread, include, keys,
                            added_artifacts, added_images, warnings)
            ELSE LET pro_services == sorted(image.pro_services)
                     nt == image_name_and_tag(image.directory, rock)
                     artifact_base == artifact_name(image.directory)
                     run_tests == image.directory \in spread
                     name == artifact_base \o artifact_suffix(pro_services)
                     w == warnings + (IF nt.warn THEN 1 ELSE 0)
                 IN IF nt.errs # <<>>
                    THEN [errs |-> nt.errs, include |-> <<>>, keys |-> <<>>, warnings |-> w]
                    ELSE IF conflicts(name, added_artifacts)
                    THEN [errs |-> <<Err("Artifacts have conflicting artifact name.",
                                         <<image.directory, added_artifacts[name], name>>)>>,
                          include |-> <<>>, keys |-> <<>>, warnings |-> w]
                    ELSE build_loop(Tail(images), rock, spread,
                             include_append(include,
                                 BuildRow(nt.val[1], nt.val[2], image.directory,
                                          pro_services, name, run_tests)),
                             Append(keys, key),
                             (name :> image.directory) @@ added_artifacts,
                             added_images \cup {key}, w)

\* CIConfig.build_matrix
build_matrix(self, rock, spread) ==
    build_loop(self.images, rock, spread, <<>>, <<>>, <<>>, {}, 0)

\* image.pro_services after image.pro_services.sort(), which sorts in place.
after_sort_in_place(pro_services) == sorted(pro_services)

\* image.pro_services after sorted(image.pro_services), which builds a new
\* list.
after_sorted(pro_services) == pro_services

\* self after build_matrix(): the method assigns no attribute of self or of
\* an image; the one list of an image it hands to a function goes to sorted().
self_after_build(self) ==
    [self EXCEPT !.images =
        [i \in 1..Len(self.images) |->
            [self.images[i] EXCEPT !.pro_services = after_sorted(@)]]]

\* An ECRPublicAuth that does not override add_prefix of ECRAuth.
auth_add_prefix_ecr(config) ==
    LET r == [k \in {"registry-auth-" \o f : f \in DOMAIN config.fields} |->
                 Str(config.fields[CHOOSE f \in DOMAIN config.fields :
                                       k = "registry-auth-" \o f])]
    IN IF config.cls \in {"ecr", "ecr-public"}
       THEN ("registry-auth-method" :> Str("ecr")) @@ r
       ELSE r

\* BaseAuthConfig.add_prefix and its overrides in ECRAuth and ECRPublicAuth:
\* config.model_dump().
auth_add_prefix(config) ==
    LET r == [k \in {"registry-auth-" \o f : f \in DOMAIN config.fields} |->
                 Str(config.fields[CHOOSE f \in DOMAIN config.fields :
                                       k = "registry-auth-" \o f])]
    IN IF config.cls \in {"ecr", "ecr-public"}
       THEN ("registry-auth-method" :> Str(config.cls)) @@ r
       ELSE r

\* RegistrySecretEntry.add_prefix: auth.model_dump(by_alias=True).
add_prefix(auth) ==
    auth_add_prefix(auth.config) @@ ("registry-auth-method" :> Str(auth.method))

\* An upload_matrix that keeps only the registries of the last declaration.
update_replace(registries, image_registries) == Range(image_registries)

\* image_publish_cfg[key].update(image.registries)
update(registries, image_registries) == registries \cup Range(image_registries)

\* The first loop of CIConfig.upload_matrix: image_publish_cfg as the list of
\* its keys in insertion order and the set of registries of each key.
RECURSIVE group_registries(_, _, _)
group_registries(images, order, cfg) ==
    IF images = <<>> THEN [order |-> order, cfg |-> cfg]
    ELSE LET image == Head(images)
             key == group_key(image)
         IN IF key \in DOMAIN cfg
            THEN group_registries(Tail(images), order,
                     [cfg EXCEPT ![key] = update(@, image.registries)])
            ELSE group_registries(Tail(images), Append(order, key),
                     (key :> update({}, image.registries)) @@ cfg)

\* One row of the upload matrix.
UploadRow(name, tag, artifact, pro_enabled, registry) ==
    [k \in {"name", "tag", "artifact-name", "pro-enabled", "registry-uri"} |->
        CASE k = "name" -> Str(name)
          [] k = "tag" -> Str(tag)
          [] k = "artifact-name" -> Str(artifact)
          [] k = "pro-enabled" -> [t |-> "bool", b |-> pro_enabled]
          [] k = "registry-uri" -> Str(registry.uri)]
    @@ add_prefix(registry.auth)

\* The rows of one group, one per registry name of the sorted list.
GroupRows(self, names, name, tag, artifact, pro_enabled) ==
    [i \in 1..Len(names) |->
        UploadRow(name, tag, artifact, pro_enabled, self.registries[names[i]])]

\* The second loop of CIConfig.upload_matrix over the groups that remain.
\* keys lists, for each row, the group and the registry name it was made for;
\* warnings counts the warning lines printed.
RECURSIVE upload_loop(_, _, _, _, _, _, _)
upload_loop(self, rock, order, cfg, include, keys, warnings) ==
    IF order = <<>>
    THEN [errs |-> <<>>, include |-> include, keys |-> keys, warnings |-> warnings]
    ELSE LET image_tuple == Head(order)
             registries == cfg[image_tuple]
         IN IF registries = {}
            THEN upload_loop(self, rock, Tail(order), cfg, include, keys, warnings)
            ELSE LET image_dir == image_tuple[1]
                     image_pro_srvs == image_tuple[2]
                     nt == image_name_and_tag(image_dir, rock)
                     base_artifact == artifact_name(image_dir)
                     suffix == artifact_suffix(sorted_set(image_pro_srvs))
                     names == sorted_set(registries)
                     w == warnings + (IF nt.warn THEN 1 ELSE 0)
                 IN IF nt.errs # <<>>
                    THEN [errs |-> nt.errs, include |-> <<>>, keys |-> <<>>, warnings |-> w]
                    ELSE IF \E n \in registries : n \notin DOMAIN self.registries
                    THEN [errs |-> <<Err("KeyError", <<>>)>>, include |-> <<>>,
                          keys |-> <<>>, warnings |-> w]
                    ELSE upload_loop(self, rock, Tail(order), cfg,
                             include \o GroupRows(self, names, nt.val[1], nt.val[2],
                                                  base_artifact \o suffix,
                                                  image_pro_srvs # {}),
                             keys \o [i \in 1..Len(names) |->
                                         <<image_dir, image_pro_srvs, names[i]>>],
                             w)

\* self after upload_matrix(): set.update() changes image_publish_cfg[key], a
\* set made by the call, and sorted() builds new lists.
self_after_upload(self) == self

\* CIConfig.upload_matrix
upload_matrix(self, rock) ==
    LET g == group_registries(self.images, <<>>, <<>>)
    IN upload_loop(self, rock, g.order, g.cfg, <<>>, <<>>, 0)

\* ProConfig._ensure_secret_format (pro.py), on a field of type Optional[str].
pro_ensure_secret_format(v) ==
    IF v.t \notin {"str", "null"}
    THEN Invalid(<<Err("Input should be a valid string", <<>>)>>)
    ELSE IF v.t = "null" \/ v.s = <<>>
    THEN Invalid(<<Err("Credential name must be a non-empty string.", <<>>)>>)
    ELSE IF ~startswith(v.s, SecretsPrefix)
    THEN Invalid(<<Err("Credential name must start with 'secrets.'", <<>>)>>)
    ELSE Valid(removeprefix(v.s, SecretsPrefix))

UBUNTU_PRO_TOKEN ==
    <<"U", "B", "U", "N", "T", "U", "_", "P", "R", "O", "_", "T", "O", "K", "E", "N">>
GITHUB_TOKEN == <<"G", "I", "T", "H", "U", "B", "_", "T", "O", "K", "E", "N">>

\* ProConfig(**m) (pro.py): a field that is absent takes its default, which is
\* not validated.
ProConfig(m) ==
    LET declared == {"token", "artifact-passphrase", "artifact_passphrase"}
        r_token == IF "token" \in DOMAIN m THEN pro_ensure_secret_format(m["token"])
                   ELSE Valid(UBUNTU_PRO_TOKEN)
        r_pass == IF "artifact-passphrase" \in DOMAIN m
                  THEN pro_ensure_secret_format(m["artifact-passphrase"])
                  ELSE IF "artifact_passphrase" \in DOMAIN m
                  THEN pro_ensure_secret_format(m["artifact_passphrase"])
                  ELSE Valid(GITHUB_TOKEN)
        errs == r_token.errs \o r_pass.errs \o ExtraForbidden(m, declared)
    IN IF errs # <<>> THEN Invalid(errs)
       ELSE Valid([token |-> r_token.val, artifact_passphrase |-> r_pass.val])

\* ------------------------------------------------------------ state

VARIABLES
    doc,        \* the parsed configuration document (config_data)
    dirs,       \* what glob.glob("**/rockcraft.yaml") returns in the repository
    rock,       \* directory -> content of its rockcraft.yaml
    spread,     \* the directories that hold a spread.yaml
    pc,         \* position of the run
    config,     \* ci_config, once constructed
    err,        \* the errors of the exception that ended the run
    globs,      \* number of glob.glob calls made by the construction
    out,        \* the lines written to GITHUB_OUTPUT
    diag,       \* number of warning lines printed
    bm,         \* outcome of the last build_matrix() call
    um,         \* outcome of the last upload_matrix() call
    calls,      \* number of builder calls made on ci_config
    pro_doc,    \* the mapping given to ProConfig
    pro_cfg     \* outcome of ProConfig(**pro_doc)

vars == <<doc, dirs, rock, spread, pc, config, err, globs, out, diag, bm, um,
          calls, pro_doc, pro_cfg>>

\* ------------------------------------------------------------ bounds

\* Longest images list of a document.
MaxImages == 2
\* Most builder calls made on one configuration by a caller of the API.
MaxCalls == 2

\* ------------------------------------------------------------ inputs

DirA == <<"a">>
DirASlashFips == <<"a", "/", "f", "i", "p", "s">>
DirADashFips == <<"a", "-", "f", "i", "p", "s">>
DirStar == <<"*">>
DirAStar == <<"a", "*">>

Acr == <<"a", "c", "r">>
Ecr == <<"e", "c", "r">>
Zzz == <<"z", "z", "z">>
Bad == <<"b", "a", "d">>

SecretA == SecretsPrefix \o <<"A">>
SecretB == SecretsPrefix \o <<"B">>

RockcraftYaml == <<"r", "o", "c", "k", "c", "r", "a", "f", "t", ".", "y", "a", "m", "l">>

\* A raw image entry with the three keys.
Image(d, p, r) == [k \in {"directory", "pro-services", "registries"} |->
                      CASE k = "directory" -> d
                        [] k = "pro-services" -> p
                        [] k = "registries" -> r]

\* The image entries documents are made of.
ImageChoices ==
    { [k \in {"directory"} |-> DirA],
      Image(DirA, <<>>, <<Ecr, Acr>>),
      Image(DirA, <<>>, <<Acr, Acr>>),
      Image(DirA, <<fips>>, <<Acr>>),
      Image(DirA, <<fips, fips>>, <<>>),
      Image(DirA, <<ros, fips>>, <<Ecr>>),
      Image(DirA, <<fips, ros>>, <<Acr>>),
      Image(DirADashFips, <<>>, <<Acr>>),
      Image(DirASlashFips, <<>>, <<>>),
      Image(DirStar, <<fips>>, <<Acr>>),
      Image(DirAStar, <<>>, <<>>),
      Image(DirA, <<>>, <<Zzz>>),
      Image(DirA, <<Bad>>, <<Zzz>>),
      Image(DirStar, <<>>, <<Zzz>>) }

\* The lists of at most n image entries.
RECURSIVE ImageLists(_)
ImageLists(n) ==
    IF n = 0 THEN {<<>>}
    ELSE LET shorter == ImageLists(n - 1)
         IN shorter \cup {Append(l, i) : l \in {x \in shorter : Len(x) = n - 1},
                                          i \in ImageChoices}

AuthEntry(method, payload) ==
    Map([k \in {"method", "config"} |->
            IF k = "method" THEN method ELSE payload])

RegistryEntry(uri, auth) ==
    [k \in {"uri", "auth"} |-> IF k = "uri" THEN Str(uri) ELSE auth]

BearerPayload(token) == [k \in {"token"} |-> token]

BasicPayload(username, password) ==
    [k \in {"username", "password"} |-> IF k = "username" THEN username ELSE password]

EcrPayload(region, username, password) ==
    [k \in {"region", "username", "password"} |->
        CASE k = "region" -> region
          [] k = "username" -> username
          [] k = "password" -> password]

Region == <<"u", "s">>
UriAcr == <<"a", "c", "r", ".", "i", "o">>
UriEcr == <<"e", "c", "r", ".", "i", "o">>

\* The registries mapping of the documents whose images vary.
DefaultRegistries ==
    (Acr :> RegistryEntry(UriAcr,
                List(<<AuthEntry("bearer", Map(BearerPayload(Str(SecretA))))>>)))
    @@ (Ecr :> RegistryEntry(UriEcr,
                List(<<AuthEntry("ecr", Map(EcrPayload(Str(Region), Str(SecretA),
                                                      Str(SecretB))))>>)))

DefaultGhcr == [k \in {"upload", "cve-scan"} |-> k = "upload"]

Document(version, ghcr, registries, images) ==
    [k \in {"version", "ghcr", "registries", "images"} |->
        CASE k = "version" -> version
          [] k = "ghcr" -> ghcr
          [] k = "registries" -> registries
          [] k = "images" -> images]

\* m with one more key.
WithKey(m, key, v) == (key :> v) @@ m

\* The values given to a credential-reference field.
CredInputs ==
    { Str(SecretA), Str(<<"A">>), Str(<<>>), Str(SecretsPrefix),
      Str(SecretsPrefix \o SecretA), Str(<<"X">> \o SecretA), Null, Num(5) }

\* The config payloads of an auth entry, with and without a key that no auth
\* model declares.
Payloads ==
    LET plain == {BearerPayload(c) : c \in CredInputs}
                 \cup {BasicPayload(c, p) : c \in CredInputs, p \in {Str(SecretB), Str(<<"B">>)}}
                 \cup {EcrPayload(Str(Region), c, Str(SecretB)) : c \in CredInputs}
    IN plain \cup {WithKey(m, "extra", Str(<<"X">>)) : m \in plain}

AuthMethods == {"basic", "bearer", "ecr", "ecr-public", "oauth"}

OneImage == <<Image(DirA, <<fips>>, <<Acr>>)>>

\* Documents with one registry, whose auth entry varies.
AuthDocuments ==
    { Document(1, DefaultGhcr,
               Map(Acr :> RegistryEntry(UriAcr, List(<<AuthEntry(m, Map(p))>>))),
               List(OneImage)) : m \in AuthMethods, p \in Payloads }

\* Documents that carry one key the schema does not declare, at each level
\* that sets extra="forbid".
ExtraKeyDocuments ==
    { WithKey(Document(1, DefaultGhcr, Map(DefaultRegistries), List(OneImage)),
              "extra", 1),
      Document(1, WithKey(DefaultGhcr, "extra", TRUE), Map(DefaultRegistries),
               List(OneImage)),
      Document(1, DefaultGhcr,
               Map(Acr :> WithKey(RegistryEntry(UriAcr,
                          List(<<AuthEntry("bearer", Map(BearerPayload(Str(SecretA))))>>)),
                          "extra", Str(<<"X">>))),
               List(OneImage)),
      Document(1, DefaultGhcr,
               Map(Acr :> RegistryEntry(UriAcr,
                          List(<<Map(WithKey(AuthEntry("bearer",
                                     Map(BearerPayload(Str(SecretA)))).m,
                                     "extra", Str(<<"X">>)))>>))),
               List(OneImage)),
      Document(1, DefaultGhcr, Map(DefaultRegistries),
               List(<<WithKey(OneImage[1], "extra", <<"X">>)>>)) }

\* Documents whose images list varies.
ImageDocuments ==
    { Document(1, DefaultGhcr, Map(DefaultRegistries), List(l)) : l \in ImageLists(MaxImages) }

\* Documents whose ghcr flags vary.
GhcrDocuments ==
    { Document(1, [k \in {"upload", "cve-scan"} |-> IF k = "upload" THEN u ELSE c],
               Map(DefaultRegistries), List(OneImage)) : u \in BOOLEAN, c \in BOOLEAN }
    \cup { Document(1, [k \in {"cve-scan"} |-> c], Map(DefaultRegistries),
                    List(OneImage)) : c \in BOOLEAN }

\* The values given to the auth field of a registry entry.
AuthShapes ==
    LET e == AuthEntry("bearer", Map(BearerPayload(Str(SecretA))))
        f == AuthEntry("basic", Map(BasicPayload(Str(SecretA), Str(SecretB))))
    IN { List(<<e>>), List(<<>>), List(<<e, e>>), List(<<e, f>>), e, Null,
         Str(SecretA), List(<<Str(SecretA)>>) }

\* Documents with one registry, whose auth field varies in shape.
AuthShapeDocuments ==
    { Document(1, DefaultGhcr, Map(Acr :> RegistryEntry(UriAcr, a)), List(OneImage)) :
          a \in AuthShapes }

\* Documents that declare registries or images as null, or with the wrong
\* type of container.
NullDocuments ==
    { Document(1, DefaultGhcr, r, i) :
          r \in {Null, Map(DefaultRegistries), Map(<<>>), List(<<>>)},
          i \in {Null, List(<<>>), Map(<<>>), List(<<[k \in {"directory"} |-> DirA]>>),
                 List(OneImage)} }

UbuntuOverride == <<"u", "b", "u", "n", "t", "u", ":", "2", "2", ".", "0", "4">>

\* Documents whose image carries a base-override.
OverrideDocuments ==
    { Document(1, DefaultGhcr, Map(DefaultRegistries),
               List(<<WithKey([k \in {"directory"} |-> DirA], key, UbuntuOverride)>>)) :
          key \in {"base-override", "base_override"} }

Bad2 == <<"b", "a", "d", "2">>

\* Documents of one image whose pro-services list holds services outside the
\* enumeration, with and without an undefined registry.
ServiceDocuments ==
    { Document(1, DefaultGhcr, Map(DefaultRegistries), List(<<Image(DirA, p, r)>>)) :
          p \in {<<fips, Bad2, Bad>>, <<Bad, fips, Bad2>>, <<Bad2>>, <<ros, fips>>},
          r \in {<<>>, <<Zzz>>, <<Acr>>} }

\* The document without one of its keys.
Without(d, key) == [k \in DOMAIN d \ {key} |-> d[k]]

\* Documents whose version varies, and documents that lack a required key.
VersionDocuments ==
    { Document(v, DefaultGhcr, Map(DefaultRegistries), List(OneImage)) : v \in {0, 1, 2, 10} }
    \cup { Without(Document(v, DefaultGhcr, Map(DefaultRegistries), List(OneImage)), key) :
               v \in {1, 2}, key \in {"version", "ghcr", "registries", "images"} }

\* Documents of two images with registries, whose metadata varies.
MetadataDocuments ==
    { Document(1, DefaultGhcr, Map(DefaultRegistries),
               List(<<Image(DirA, <<>>, <<Ecr, Acr>>), Image(DirADashFips, <<>>, <<Acr>>)>>)) }

\* The content of a rockcraft.yaml.
Metadata(name, version, base, build_base) ==
    Map([k \in {"name", "version", "base", "build-base"} |->
            CASE k = "name" -> name
              [] k = "version" -> version
              [] k = "base" -> base
              [] k = "build-base" -> build_base])

RockOk(name) ==
    Map([k \in {"name", "version", "base", "build-base"} |->
            CASE k = "name" -> name
              [] k = "version" -> <<"1", ".", "0">>
              [] k = "base" -> bare
              [] k = "build-base" -> <<"u", "b", "u", "n", "t", "u", ":", "2", "4", ".", "0", "4">>])

RockInvalidBase ==
    Map([k \in {"name", "version", "base"} |->
            CASE k = "name" -> <<"x">>
              [] k = "version" -> <<"1", ".", "0">>
              [] k = "base" -> <<"u", "b", "u", "n", "t", "u", ":", "n", "o", "b", "l", "e">>])

AllRocks == (DirA :> RockOk(<<"m">>)) @@ (DirASlashFips :> RockOk(<<"n">>))
            @@ (DirADashFips :> RockOk(<<"o">>))

\* The metadata of the repository: every file readable, or one of them
\* absent or with a base that has no version token.
RockEnvs ==
    { AllRocks,
      [AllRocks EXCEPT ![DirADashFips] = Null],
      [AllRocks EXCEPT ![DirA] = RockInvalidBase] }

V10 == <<"1", ".", "0">>
Ubuntu2204 == <<"u", "b", "u", "n", "t", "u", "@", "2", "2", ".", "0", "4">>
Ubuntu2404 == <<"u", "b", "u", "n", "t", "u", ":", "2", "4", ".", "0", "4">>
UbuntuNoble == <<"u", "b", "u", "n", "t", "u", ":", "n", "o", "b", "l", "e">>

\* The rockcraft.yaml of a directory: bases with and without a version token,
\* at the end of the string or not, the version "latest", a mapping that
\* lacks a field, and no file.
MetadataChoices ==
    { Metadata(<<"x">>, V10, Ubuntu2204, Ubuntu2404),
      Metadata(<<"x">>, V10, bare, Ubuntu2404),
      Metadata(<<"x">>, V10, bare, Ubuntu2204),
      Metadata(<<"x">>, V10, <<"u", "b", "u", "n", "t", "u", ":">> \o devel, UbuntuNoble),
      Metadata(<<"x">>, V10, devel, UbuntuNoble),
      Metadata(<<"x">>, latest, bare, Ubuntu2404),
      Metadata(<<"x">>, latest, Ubuntu2204, Ubuntu2404),
      Metadata(<<"x">>, latest, UbuntuNoble, Ubuntu2404),
      Metadata(<<"x">>, V10, UbuntuNoble, Ubuntu2404),
      Metadata(<<"x">>, V10, bare, UbuntuNoble),
      Metadata(<<"x">>, V10, Ubuntu2204 \o <<"-", "x">>, Ubuntu2404),
      Metadata(<<"x">>, V10, <<"2", ".", "0", "4">>, Ubuntu2404),
      Metadata(<<"x">>, V10, <<"2", "2", "-", "0", "4">>, Ubuntu2404),
      Metadata(<<"x">>, V10, <<>>, Ubuntu2404),
      Metadata(<<"x">>, V10, Ubuntu2204 \o <<"\n">>, Ubuntu2404),
      Metadata(<<"x">>, V10, bare, Ubuntu2404 \o <<"\n">>),
      Metadata(<<"x">>, V10, devel \o <<"\n", "\n">>, Ubuntu2404),
      Map(Without(Metadata(<<"x">>, V10, Ubuntu2204, Ubuntu2404).m, "version")),
      Map(Without(Metadata(<<"x">>, V10, bare, Ubuntu2404).m, "build-base")),
      Null }

\* The metadata of the repository when the rockcraft.yaml of one directory
\* varies and the other one has the version 1.0 or latest.
MetadataEnvs ==
    { [AllRocks EXCEPT ![DirA] = m, ![DirADashFips] = o] :
          m \in MetadataChoices,
          o \in {RockOk(<<"o">>), Metadata(<<"o">>, latest, Ubuntu2204, Ubuntu2404),
                 Map(Without(RockOk(<<"o">>).m, "name"))} }

GlobResults ==
    { <<>>, <<DirADashFips \o <<"/">> \o RockcraftYaml, DirA \o <<"/">> \o RockcraftYaml>> }

\* No builder call made yet.
NotCalled == [called |-> FALSE, errs |-> <<>>, include |-> <<>>, keys |-> <<>>]

Idle ==
    /\ pc = "start" /\ config = Null /\ err = <<>> /\ globs = 0 /\ out = <<>>
    /\ diag = 0 /\ calls = 0
    /\ bm = NotCalled /\ um = NotCalled

InitMain ==
    /\ \/ /\ doc \in ImageDocuments
          /\ rock \in RockEnvs
          /\ dirs \in GlobResults
       \/ /\ doc \in AuthDocuments \cup ExtraKeyDocuments \cup GhcrDocuments
                     \cup AuthShapeDocuments \cup NullDocuments \cup OverrideDocuments
                     \cup ServiceDocuments \cup VersionDocuments
          /\ rock = AllRocks
          /\ dirs = <<>>
       \/ /\ doc \in MetadataDocuments
          /\ rock \in MetadataEnvs
          /\ dirs = <<>>
    /\ spread = {DirA}
    /\ Idle
    /\ pro_doc = <<>> /\ pro_cfg = Null

\* The mappings given to ProConfig.
ProDocuments ==
    LET opt(key) == {<<>>} \cup {(key :> c) : c \in CredInputs}
        plain == {t @@ a : t \in opt("token"),
                           a \in opt("artifact-passphrase") \cup opt("artifact_passphrase")}
    IN plain \cup {WithKey(m, "extra", Str(<<"X">>)) : m \in plain}

InitPro ==
    /\ doc = <<>> /\ dirs = <<>> /\ rock = <<>> /\ spread = {}
    /\ config = Null /\ err = <<>> /\ globs = 0 /\ out = <<>> /\ diag = 0 /\ calls = 0
    /\ bm = NotCalled /\ um = NotCalled
    /\ pc = "pro_start"
    /\ pro_doc \in ProDocuments /\ pro_cfg = Null

Init == InitMain \/ InitPro

\* ------------------------------------------------------------ actions

\* ProConfig(**pro_doc)
ConstructProConfig ==
    /\ pc = "pro_start"
    /\ pro_cfg' = ProConfig(pro_doc)
    /\ pc' = "pro_constructed"
    /\ UNCHANGED <<doc, dirs, rock, spread, config, err, globs, out, diag, bm, um, calls,
                   pro_doc>>

\* ci_config = CIConfig(**config_data)
Construct ==
    /\ pc = "start"
    /\ LET r == CIConfig(doc, dirs)
       IN /\ globs' = r.globs
          /\ IF r.errs = <<>>
             THEN config' = r.val /\ err' = err /\ pc' = "constructed"
             ELSE config' = config /\ err' = r.errs /\ pc' = "failed"
    /\ UNCHANGED <<doc, dirs, rock, spread, out, diag, bm, um, calls, pro_doc, pro_cfg>>

\* json.dumps of a bool
json_bool(b) == IF b THEN "true" ELSE "false"

\* gh_out.write(f"ghcr-upload={json.dumps(ci_config.ghcr.upload)}\n")
WriteGhcrUpload ==
    /\ pc = "constructed"
    /\ out' = Append(out, [key |-> "ghcr-upload", value |-> json_bool(config.ghcr.upload)])
    /\ pc' = "ghcr_upload_written"
    /\ UNCHANGED <<doc, dirs, rock, spread, config, err, globs, diag, bm, um, calls,
                   pro_doc, pro_cfg>>

\* gh_out.write(f"ghcr-cve-scan={json.dumps(ci_config.ghcr.upload)}\n")
WriteGhcrCveScan ==
    /\ pc = "ghcr_upload_written"
    /\ out' = Append(out, [key |-> "ghcr-cve-scan", value |-> json_bool(config.ghcr.upload)])
    /\ pc' = "ghcr_cve_scan_written"
    /\ UNCHANGED <<doc, dirs, rock, spread, config, err, globs, diag, bm, um, calls,
                   pro_doc, pro_cfg>>

Outcome(r) == [called |-> TRUE, errs |-> r.errs, include |-> r.include, keys |-> r.keys]

\* gh_out.write(f"build-matrix={json.dumps(ci_config.build_matrix())}\n")
WriteBuildMatrix ==
    /\ pc = "ghcr_cve_scan_written"
    /\ LET r == build_matrix(config, rock, spread)
       IN /\ bm' = Outcome(r)
          /\ diag' = diag + r.warnings
          /\ IF r.errs = <<>>
             THEN /\ out' = Append(out, [key |-> "build-matrix", value |-> r.include])
                  /\ err' = err
                  /\ pc' = "build_matrix_written"
             ELSE out' = out /\ err' = r.errs /\ pc' = "failed"
    /\ config' = self_after_build(config)
    /\ UNCHANGED <<doc, dirs, rock, spread, globs, um, calls, pro_doc, pro_cfg>>

\* gh_out.write(f"upload-matrix={json.dumps(ci_config.upload_matrix())}\n")
WriteUploadMatrix ==
    /\ pc = "build_matrix_written"
    /\ LET r == upload_matrix(config, rock)
       IN /\ um' = Outcome(r)
          /\ diag' = diag + r.warnings
          /\ IF r.errs = <<>>
             THEN /\ out' = Append(out, [key |-> "upload-matrix", value |-> r.include])
                  /\ err' = err
                  /\ pc' = "done"
             ELSE out' = out /\ err' = r.errs /\ pc' = "failed"
    /\ config' = self_after_upload(config)
    /\ UNCHANGED <<doc, dirs, rock, spread, globs, bm, calls, pro_doc, pro_cfg>>

\* main() of process_ci_config.py, or the construction of a ProConfig.
Next ==
    \/ Construct
    \/ WriteGhcrUpload
    \/ WriteGhcrCveScan
    \/ WriteBuildMatrix
    \/ WriteUploadMatrix
    \/ ConstructProConfig

Spec == Init /\ [][Next]_vars

\* A caller of the API (the test suite): ci_config.build_matrix()
CallBuildMatrix ==
    /\ pc = "constructed"
    /\ calls < MaxCalls
    /\ LET r == build_matrix(config, rock, spread)
       IN bm' = Outcome(r) /\ diag' = diag + r.warnings
    /\ calls' = calls + 1
    /\ config' = self_after_build(config)
    /\ UNCHANGED <<doc, dirs, rock, spread, pc, err, globs, out, um, pro_doc, pro_cfg>>

\* A caller of the API (the test suite): ci_config.upload_matrix()
CallUploadMatrix ==
    /\ pc = "constructed"
    /\ calls < MaxCalls
    /\ LET r == upload_matrix(config, rock)
       IN um' = Outcome(r) /\ diag' = diag + r.warnings
    /\ calls' = calls + 1
    /\ config' = self_after_upload(config)
    /\ UNCHANGED <<doc, dirs, rock, spread, pc, err, globs, out, bm, pro_doc, pro_cfg>>

NextAPI ==
    \/ Construct
    \/ CallBuildMatrix
    \/ CallUploadMatrix

SpecAPI == InitMain /\ [][NextAPI]_vars

\* ------------------------------------------------------------ properties

\* No element occurs twice in the list.
NoDuplicates(l) == \A i, j \in 1..Len(l) : i # j => l[i] # l[j]

\* The (directory, set of pro_services) pairs of the images of the
\* configuration.
GroupsOf(images) ==
    {<<images[i].directory, {images[i].pro_services[k] : k \in 1..Len(images[i].pro_services)}>> :
        i \in 1..Len(images)}

\* The (directory, set of pro_services, registry) triples declared by the
\* images of the configuration.
DeclaredUploads(images) ==
    UNION { {<<images[i].directory,
               {images[i].pro_services[j] : j \in 1..Len(images[i].pro_services)},
               images[i].registries[k]>> : k \in 1..Len(images[i].registries)} :
            i \in 1..Len(images) }

\* C1: whenever build_matrix() returns, the build matrix has exactly one row
\* per distinct (directory, set of pro_services) pair of the images, however
\* often the pair is declared and in whatever order its services are listed.
C1_OneRowPerGroup ==
    (bm.called /\ bm.errs = <<>>) =>
        /\ Len(bm.include) = Cardinality(GroupsOf(config.images))
        /\ Len(bm.keys) = Len(bm.include)
        /\ {bm.keys[i] : i \in 1..Len(bm.keys)} = GroupsOf(config.images)
        /\ \A i \in 1..Len(bm.include) : bm.include[i]["directory"].s = bm.keys[i][1]

\* C1 witness: one group declared twice, its two services listed in different
\* orders, gives one row.
C1_Witness ==
    /\ bm.called /\ bm.errs = <<>>
    /\ Len(config.images) = 2
    /\ Len(config.images[1].pro_services) = 2
    /\ config.images[1].pro_services # config.images[2].pro_services
    /\ Cardinality(GroupsOf(config.images)) = 1
    /\ Len(bm.include) = 1

\* C2: whenever upload_matrix() returns, it has a row for (directory, set of
\* pro_services, registry) if and only if some image with that directory and
\* that set of services lists the registry, and at most one such row; a
\* group that lists no registry has no row.
C2_RegistryUnion ==
    (um.called /\ um.errs = <<>>) =>
        /\ Len(um.keys) = Len(um.include)
        /\ NoDuplicates(um.keys)
        /\ {um.keys[i] : i \in 1..Len(um.keys)} = DeclaredUploads(config.images)
        /\ \A i \in 1..Len(um.include) :
              um.include[i]["registry-uri"].s = config.registries[um.keys[i][3]].uri

\* C2 witness: two declarations of one group, which share a registry and list
\* two registries between them, give two rows.
C2_Witness ==
    /\ um.called /\ um.errs = <<>>
    /\ Len(config.images) = 2
    /\ Cardinality(GroupsOf(config.images)) = 1
    /\ \E r \in DOMAIN config.registries :
          /\ \E k \in 1..Len(config.images[1].registries) : config.images[1].registries[k] = r
          /\ \E k \in 1..Len(config.images[2].registries) : config.images[2].registries[k] = r
    /\ config.images[1].registries # config.images[2].registries
    /\ Len(um.include) = 2

\* The indices of the images that are the first declaration of their group.
FirstDeclarations(images) ==
    {i \in 1..Len(images) :
        \A j \in 1..(i - 1) : GroupsOf(<<images[j]>>) # GroupsOf(<<images[i]>>)}

\* The artifact name build_matrix computes for a group from its first
\* declaration.
ArtifactOf(image) ==
    artifact_name(image.directory) \o artifact_suffix(sorted(image.pro_services))

\* The pairs i < j of first declarations whose artifact names coincide.
Collisions(images) ==
    {p \in FirstDeclarations(images) \X FirstDeclarations(images) :
        p[1] < p[2] /\ ArtifactOf(images[p[1]]) = ArtifactOf(images[p[2]])}

\* The collision error that names both directories and the shared name.
IsCollisionError(errs, images) ==
    \E p \in Collisions(images) :
        errs = <<Err("Artifacts have conflicting artifact name.",
                     <<images[p[2]].directory, images[p[1]].directory,
                       ArtifactOf(images[p[2]])>>)>>

\* The metadata of the directory can be read and its base has a version token.
Readable(directory) == image_name_and_tag(directory, rock).errs = <<>>

\* The first declarations up to and including the second group of the
\* earliest collision all have readable metadata.
ReadableUpToCollision(images) ==
    \E p \in Collisions(images) :
        /\ \A q \in Collisions(images) : p[2] <= q[2]
        /\ \A k \in FirstDeclarations(images) : k <= p[2] => Readable(images[k].directory)

\* C3 as stated: whenever two distinct groups have the same artifact name,
\* build_matrix() fails with the error naming both directories and the name.
C3_CollisionAlwaysNamed ==
    (bm.called /\ Collisions(config.images) # {}) =>
        IsCollisionError(bm.errs, config.images)

\* C3 as amended: when build_matrix() returns, the artifact names of its rows
\* are pairwise distinct; when two distinct groups have the same artifact
\* name it fails, with the error naming both directories and the name if the
\* metadata of every group up to and including the second colliding one is
\* readable, and with the metadata error otherwise.
C3_ArtifactNamesUnique ==
    bm.called =>
        /\ bm.errs = <<>> =>
              NoDuplicates([i \in 1..Len(bm.include) |-> bm.include[i]["artifact-name"].s])
        /\ Collisions(config.images) # {} => bm.errs # <<>>
        /\ (Collisions(config.images) # {} /\ ReadableUpToCollision(config.images)) =>
              IsCollisionError(bm.errs, config.images)
        /\ (Collisions(config.images) # {} /\ ~ReadableUpToCollision(config.images)) =>
              \E k \in FirstDeclarations(config.images) :
                  /\ ~Readable(config.images[k].directory)
                  /\ bm.errs = image_name_and_tag(config.images[k].directory, rock).errs

\* C3 witness: build_matrix() has failed with the collision error.
C3_Witness ==
    /\ bm.called
    /\ Collisions(config.images) # {}
    /\ IsCollisionError(bm.errs, config.images)

\* C4: when both builders return, every upload row of a group carries the
\* artifact-name of the build row of that group.
C4_SameArtifactName ==
    (bm.called /\ bm.errs = <<>> /\ um.called /\ um.errs = <<>>) =>
        \A i \in 1..Len(um.include) : \A j \in 1..Len(bm.include) :
            (um.keys[i][1] = bm.keys[j][1] /\ um.keys[i][2] = bm.keys[j][2]) =>
                um.include[i]["artifact-name"] = bm.include[j]["artifact-name"]

\* The images list of the document.
RawImages ==
    IF "images" \in DOMAIN doc /\ doc["images"].t = "list" THEN doc["images"].l ELSE <<>>

\* The pro-services and the registries a raw image entry declares.
RawServices(m) ==
    IF "pro-services" \in DOMAIN m THEN m["pro-services"]
    ELSE IF "pro_services" \in DOMAIN m THEN m["pro_services"] ELSE <<>>

RawRegistries(m) == IF "registries" \in DOMAIN m THEN m["registries"] ELSE <<>>

\* The images list in which every "*" entry is replaced, in place, by one
\* entry per discovered directory that inherits its pro_services and
\* registries.
RECURSIVE ExpectedExpansion(_)
ExpectedExpansion(l) ==
    IF l = <<>> THEN <<>>
    ELSE (IF Head(l)["directory"] = <<"*">>
          THEN [i \in 1..Len(dirs) |->
                   [directory |-> dirname(dirs[i]),
                    pro_services |-> RawServices(Head(l)),
                    registries |-> RawRegistries(Head(l))]]
          ELSE <<[directory |-> Head(l)["directory"],
                  pro_services |-> RawServices(Head(l)),
                  registries |-> RawRegistries(Head(l))]>>)
         \o ExpectedExpansion(Tail(l))

\* C5: in a constructed configuration every "*" entry has been replaced, at
\* its position, by one ImageEntry per discovered directory, in discovery
\* order, with the pro_services and the registries of the "*" entry.
C5_WildcardInherits ==
    (pc \notin {"start", "pro_start", "pro_constructed"} /\ config # Null) =>
        config.images = ExpectedExpansion(RawImages)

\* A raw image entry whose directory contains "*" and is not "*".
Misused(m) ==
    /\ "directory" \in DOMAIN m
    /\ \E i \in 1..Len(m["directory"]) : m["directory"][i] = "*"
    /\ m["directory"] # <<"*">>

\* A raw image entry that is a valid ImageEntry on its own.
EntryValid(m) ==
    /\ "directory" \in DOMAIN m
    /\ DOMAIN m \subseteq {"directory", "pro-services", "pro_services", "registries"}
    /\ \A k \in 1..Len(RawServices(m)) : RawServices(m)[k] \in UBUNTU_PRO_SERVICES

\* The keys of the registries mapping of the document.
RawRegistryNames ==
    IF "registries" \in DOMAIN doc /\ doc["registries"].t = "map"
    THEN DOMAIN doc["registries"].m ELSE {}

\* The registries field of the document validates.
RegistriesValid == RegistriesOf(doc).errs = <<>>

\* Every registry an image entry references is a key of the registries
\* mapping.
RefsDefined ==
    \A i \in 1..Len(RawImages) : \A k \in 1..Len(RawRegistries(RawImages[i])) :
        RawRegistries(RawImages[i])[k] \in RawRegistryNames

HasError(msg) == \E i \in 1..Len(err) : err[i].msg = msg

WildcardMessage == "Wildcard '*' must be the only character in directory"

FirstOffending ==
    LET i == CHOOSE a \in 1..Len(RawImages) :
                 /\ \E k \in 1..Len(RawRegistries(RawImages[a])) :
                       RawRegistries(RawImages[a])[k] \notin RawRegistryNames
                 /\ \A b \in 1..(a - 1) :
                       \A k \in 1..Len(RawRegistries(RawImages[b])) :
                           RawRegistries(RawImages[b])[k] \in RawRegistryNames
        regs == RawRegistries(RawImages[i])
        k == CHOOSE a \in 1..Len(regs) :
                 regs[a] \notin RawRegistryNames
                 /\ \A b \in 1..(a - 1) : regs[b] \in RawRegistryNames
    IN <<regs[k], RawImages[i]["directory"]>>

RegistryMessage == "Registry in image is not defined in registries."

PastConstruct == pc \notin {"start", "pro_start", "pro_constructed"}

CredentialFields == {"username", "password", "token"}

\* The value is a string that starts with "secrets.".
HasPrefix(v) ==
    /\ v.t = "str"
    /\ Len(v.s) >= Len(SecretsPrefix)
    /\ \A i \in 1..Len(SecretsPrefix) : v.s[i] = SecretsPrefix[i]

\* The auth entry of a registry of the document, when auth is a list of one
\* mapping.
RawAuth(n) == doc["registries"].m[n]["auth"].l[1].m

\* The registry entries of the document whose auth is a list of one mapping
\* with a known method and a config mapping.
WellFormedAuth ==
    {n \in RawRegistryNames :
        /\ "auth" \in DOMAIN doc["registries"].m[n]
        /\ doc["registries"].m[n]["auth"].t = "list"
        /\ Len(doc["registries"].m[n]["auth"].l) = 1
        /\ doc["registries"].m[n]["auth"].l[1].t = "map"
        /\ {"method", "config"} \subseteq DOMAIN RawAuth(n)
        /\ RawAuth(n)["method"] \in AuthType
        /\ RawAuth(n)["config"].t = "map"}

\* The credential fields that the variant selected by the method declares.
CredentialsOf(method) ==
    CASE method = "bearer" -> {"token"}
      [] OTHER -> {"username", "password"}

\* Some credential field of some registry is given a value that is not a
\* string starting with "secrets.".
BadCredentialGiven ==
    \E n \in WellFormedAuth :
        \E f \in CredentialsOf(RawAuth(n)["method"]) \cap DOMAIN RawAuth(n)["config"].m :
            ~HasPrefix(RawAuth(n)["config"].m[f])

\* The keys of the ProConfig mapping and the field each one sets.
ProKeys == {<<"token", "token">>, <<"artifact-passphrase", "artifact_passphrase">>,
            <<"artifact_passphrase", "artifact_passphrase">>}

\* C8: a credential-reference field (username, password and token of the
\* auth variants, token and artifact-passphrase of ProConfig) is accepted only
\* if it is a string starting with "secrets.", the stored value is the input
\* without that one leading prefix, and an input without the prefix makes the
\* validation fail.
C8_CredentialPrefix ==
    /\ (PastConstruct /\ config # Null) =>
          \A n \in DOMAIN config.registries :
              \A f \in DOMAIN config.registries[n].auth.config.fields \cap CredentialFields :
                  /\ HasPrefix(RawAuth(n)["config"].m[f])
                  /\ RawAuth(n)["config"].m[f].s
                         = SecretsPrefix \o config.registries[n].auth.config.fields[f]
    /\ (PastConstruct /\ BadCredentialGiven) => config = Null
    /\ pc = "pro_constructed" =>
          \A k \in {q \in ProKeys : q[1] \in DOMAIN pro_doc} :
              IF pro_cfg.errs = <<>>
              THEN /\ HasPrefix(pro_doc[k[1]])
                   /\ pro_doc[k[1]].s = SecretsPrefix \o pro_cfg.val[k[2]]
              ELSE TRUE
    /\ (/\ pc = "pro_constructed"
        /\ \E k \in ProKeys : k[1] \in DOMAIN pro_doc /\ ~HasPrefix(pro_doc[k[1]]))
          => pro_cfg.errs # <<>>

\* C8 witness: a configuration was constructed from a token that starts with
\* the prefix twice, and the stored name still starts with it once.
C8_Witness ==
    /\ PastConstruct /\ config # Null
    /\ \E n \in DOMAIN config.registries :
          /\ "token" \in DOMAIN config.registries[n].auth.config.fields
          /\ config.registries[n].auth.config.fields["token"] = SecretA
          /\ RawAuth(n)["config"].m["token"].s = SecretsPrefix \o SecretA

\* The document carries a key that the schema does not declare: at the top
\* level, under ghcr, in a registry entry, in an auth entry, in the config
\* payload of an auth entry, or in an image entry.
HasUndeclaredKey ==
    \/ ~(DOMAIN doc \subseteq {"version", "ghcr", "registries", "images"})
    \/ "ghcr" \in DOMAIN doc /\ ~(DOMAIN doc["ghcr"] \subseteq {"upload", "cve-scan"})
    \/ \E n \in RawRegistryNames :
          ~(DOMAIN doc["registries"].m[n] \subseteq {"uri", "auth"})
    \/ \E n \in RawRegistryNames :
          /\ "auth" \in DOMAIN doc["registries"].m[n]
          /\ doc["registries"].m[n]["auth"].t = "list"
          /\ \E i \in 1..Len(doc["registries"].m[n]["auth"].l) :
                /\ doc["registries"].m[n]["auth"].l[i].t = "map"
                /\ ~(DOMAIN doc["registries"].m[n]["auth"].l[i].m \subseteq {"method", "config"})
    \/ \E n \in WellFormedAuth :
          ~(DOMAIN RawAuth(n)["config"].m
                \subseteq CredentialsOf(RawAuth(n)["method"])
                          \cup (IF RawAuth(n)["method"] \in {"ecr", "ecr-public"}
                                THEN {"region"} ELSE {}))
    \/ \E i \in 1..Len(RawImages) :
          ~(DOMAIN RawImages[i]
                \subseteq {"directory", "pro-services", "pro_services", "registries"})

\* C9: a document that carries an undeclared key at any level fails
\* validation.
C9_ClosedSchema ==
    (PastConstruct /\ HasUndeclaredKey) => config = Null

\* C10: a run that has failed has written no line to the output.
C10_NoPartialOutput ==
    pc = "failed" => out = <<>>

\* The line written for an output key, in a run that wrote it once.
Written(key) == out[CHOOSE i \in 1..Len(out) : out[i].key = key].value

\* C11: in a successful run of main the value written for ghcr-upload is the
\* configuration's ghcr.upload and the value written for ghcr-cve-scan is the
\* configuration's ghcr.cve_scan.
C11_GhcrFlagsWritten ==
    pc = "done" =>
        /\ Written("ghcr-upload") = json_bool(config.ghcr.upload)
        /\ Written("ghcr-cve-scan") = json_bool(config.ghcr.cve_scan)

CveScanMessage == "cve-scan can not be true if upload is false"

\* The document asks for the CVE scan without the upload.
ScanWithoutUpload ==
    /\ "ghcr" \in DOMAIN doc
    /\ "cve-scan" \in DOMAIN doc["ghcr"]
    /\ doc["ghcr"]["cve-scan"]
    /\ ("upload" \in DOMAIN doc["ghcr"] => ~doc["ghcr"]["upload"])

\* C12: in every constructed configuration ghcr.cve_scan is true only if
\* ghcr.upload is true, and a document with cve-scan true and upload false
\* fails validation with "cve-scan can not be true if upload is false".
C12_CveScanNeedsUpload ==
    /\ (PastConstruct /\ config # Null) => (config.ghcr.cve_scan => config.ghcr.upload)
    /\ (PastConstruct /\ ScanWithoutUpload) => (config = Null /\ HasError(CveScanMessage))

\* C12 witness: a document with cve-scan true and upload false has failed with
\* the error.
C12_Witness ==
    /\ pc = "failed"
    /\ "ghcr" \in DOMAIN doc
    /\ "upload" \in DOMAIN doc["ghcr"] /\ ~doc["ghcr"]["upload"] /\ doc["ghcr"]["cve-scan"]
    /\ HasError(CveScanMessage)

\* A version token: two digits, "." or "@", two digits, or the literal devel.
IsVersionToken(t) ==
    \/ t = devel
    \/ /\ Len(t) = 5
       /\ {t[1], t[2], t[4], t[5]} \subseteq Digits
       /\ t[3] \in {".", "@"}

\* The last five characters of a string of at least five.
LastFive(s) == SubSeq(s, Len(s) - 4, Len(s))

\* The string ends in a version token.
EndsInToken(s) == Len(s) >= 5 /\ IsVersionToken(LastFive(s))

\* The string without the newline that ends it, if one does.
Chomp(s) == IF s # <<>> /\ s[Len(s)] = "\n" THEN SubSeq(s, 1, Len(s) - 1) ELSE s

\* The rockcraft.yaml of the directory is a mapping with the fields
\* image_name_and_tag reads.
HasMetadata(d) ==
    /\ d \in DOMAIN rock /\ rock[d].t = "map"
    /\ {"name", "version", "base"} \subseteq DOMAIN rock[d].m
    /\ rock[d].m["base"] = bare => "build-base" \in DOMAIN rock[d].m

\* The base field of the metadata of the directory, or its build-base field
\* when base is bare.
BaseOf(d) ==
    IF rock[d].m["base"] = bare THEN rock[d].m["build-base"] ELSE rock[d].m["base"]

\* The (name, tag) the claim gives for a directory whose base string is b.
NameAndTag(d, b) ==
    <<rock[d].m["name"],
      rock[d].m["version"] \o <<"-">> \o LastFive(b) \o <<"_", "e", "d", "g", "e">>>>

\* The directory and the (name, tag) of every row of the two matrices.
RowsNamed ==
    {<<bm.include[i]["directory"].s, <<bm.include[i]["name"].s, bm.include[i]["tag"].s>>>> :
        i \in 1..Len(bm.include)}
    \cup {<<um.keys[i][1], <<um.include[i]["name"].s, um.include[i]["tag"].s>>>> :
        i \in 1..Len(um.include)}

\* C13 as stated: every (name, tag) that image_name_and_tag returns is the
\* metadata's name and "{version}-{token}_edge", where token is the version
\* token that ends the base field, or the build-base field when base is bare.
C13_TagEndsBase ==
    \A r \in RowsNamed :
        /\ HasMetadata(r[1])
        /\ EndsInToken(BaseOf(r[1]))
        /\ r[2] = NameAndTag(r[1], BaseOf(r[1]))

\* C13 as amended: the same, where the version token ends the base string
\* once a newline that ends the string is set aside.
C13_TagFromMetadata ==
    \A r \in RowsNamed :
        /\ HasMetadata(r[1])
        /\ EndsInToken(Chomp(BaseOf(r[1])))
        /\ r[2] = NameAndTag(r[1], Chomp(BaseOf(r[1])))

\* C13 witness: the matrices hold a row for a directory whose base is not
\* bare and one for a directory whose base is bare, with different tokens.
C13_Witness ==
    /\ bm.called /\ bm.errs = <<>> /\ Len(bm.include) = 2
    /\ rock[DirA].m["base"] = Ubuntu2204
    /\ rock[DirADashFips].m["base"] = bare
    /\ bm.include[1]["tag"].s = V10 \o <<"-", "2", "2", ".", "0", "4", "_", "e", "d", "g", "e">>
    /\ bm.include[2]["tag"].s = V10 \o <<"-", "2", "4", ".", "0", "4", "_", "e", "d", "g", "e">>

BaseMessage == "Base in rockcraft.yaml does not match the expected pattern."

\* The directory of the first image of the configuration.
FirstDirectory == config.images[1].directory

\* C14 as stated: when the base string of the first image (base, or
\* build-base if base is bare) does not end in a version token, build_matrix()
\* fails in image_name_and_tag with the error naming that base string and the
\* directory, and no matrix holds a row for a directory with such a base.
C14_BaseErrorStrict ==
    /\ (bm.called /\ config.images # <<>> /\ HasMetadata(FirstDirectory)
          /\ ~EndsInToken(BaseOf(FirstDirectory)))
        => /\ bm.errs = <<Err(BaseMessage, <<BaseOf(FirstDirectory), FirstDirectory>>)>>
           /\ bm.include = <<>>
    /\ \A r \in RowsNamed : EndsInToken(BaseOf(r[1]))

\* C14 as amended: the same for a base string that, once a newline that ends
\* it is set aside, does not end in a version token.
C14_BaseError ==
    /\ (bm.called /\ config.images # <<>> /\ HasMetadata(FirstDirectory)
          /\ ~EndsInToken(Chomp(BaseOf(FirstDirectory))))
        => /\ bm.errs = <<Err(BaseMessage, <<BaseOf(FirstDirectory), FirstDirectory>>)>>
           /\ bm.include = <<>>
    /\ \A r \in RowsNamed : EndsInToken(Chomp(BaseOf(r[1])))

\* C14 witness: build_matrix() has failed on a bare base whose build-base has
\* no version token, naming the build-base.
C14_Witness ==
    /\ bm.called
    /\ HasMetadata(DirA)
    /\ rock[DirA].m["base"] = bare
    /\ bm.errs = <<Err(BaseMessage, <<UbuntuNoble, DirA>>)>>

\* The metadata of the directory has the version "latest".
IsLatest(d) == rock[d].m["version"] = latest

\* The tag uses latest verbatim as its version part.
TagOfLatest(tag) == SubSeq(tag, 1, Len(latest) + 1) = latest \o <<"-">>

\* The groups for which upload_matrix() called image_name_and_tag.
UploadedGroups(keys) == {<<keys[i][1], keys[i][2]>> : i \in 1..Len(keys)}

\* C15: a metadata version equal to latest is not an error; each call of
\* image_name_and_tag that returns prints exactly one warning line when the
\* version is latest, and then the tag uses latest verbatim, and prints none
\* for any other version: a builder that returns has printed one line per
\* call made on a directory whose version is latest.
C15_LatestWarns ==
    [][ /\ (pc = "ghcr_cve_scan_written" /\ pc' = "build_matrix_written") =>
              /\ diag' - diag =
                     Cardinality({i \in 1..Len(bm'.include) :
                                      IsLatest(bm'.include[i]["directory"].s)})
              /\ \A i \in 1..Len(bm'.include) :
                     IsLatest(bm'.include[i]["directory"].s)
                         <=> TagOfLatest(bm'.include[i]["tag"].s)
        /\ (pc = "build_matrix_written" /\ pc' = "done") =>
              /\ diag' - diag =
                     Cardinality({g \in UploadedGroups(um'.keys) : IsLatest(g[1])})
              /\ \A i \in 1..Len(um'.include) :
                     IsLatest(um'.keys[i][1]) <=> TagOfLatest(um'.include[i]["tag"].s)
      ]_vars

\* C15 witness: a run whose two directories both have the version latest has
\* ended after two warnings of build_matrix() and two of upload_matrix().
C15_Witness ==
    /\ pc = "done" /\ diag = 4
    /\ IsLatest(DirA) /\ IsLatest(DirADashFips)
    /\ TagOfLatest(bm.include[1]["tag"].s)

OverrideKeys == {"base-override", "base_override"}

\* The base override that the document gives for the directory, in a
\* one-element list, or the empty list.
OverrideOf(d) ==
    LET given == {i \in 1..Len(RawImages) :
                     /\ "directory" \in DOMAIN RawImages[i]
                     /\ RawImages[i]["directory"] = d
                     /\ OverrideKeys \cap DOMAIN RawImages[i] # {}}
    IN IF given = {} THEN <<>>
       ELSE LET i == CHOOSE g \in given : \A h \in given : g <= h
            IN <<RawImages[i][CHOOSE k \in OverrideKeys : k \in DOMAIN RawImages[i]]>>

\* C16: an image may carry a base override; when its metadata base is bare
\* the tag's base token is the one extracted from the override instead of the
\* one from build-base, and when the metadata base is not bare the override is
\* ignored and the tag uses the token of the metadata base.
C16_OverrideUsed ==
    (PastConstruct /\ \E i \in 1..Len(RawImages) : OverrideKeys \cap DOMAIN RawImages[i] # {})
        => /\ config # Null
           /\ \A i \in 1..Len(bm.include) :
                 LET d == bm.include[i]["directory"].s
                 IN OverrideOf(d) # <<>> =>
                        bm.include[i]["tag"].s =
                            NameAndTag(d, IF rock[d].m["base"] = bare
                                          THEN OverrideOf(d)[1] ELSE rock[d].m["base"])[2]

\* The registries whose auth is a list of one mapping with a method and a
\* config.
SingleAuth ==
    {n \in RawRegistryNames :
        /\ "auth" \in DOMAIN doc["registries"].m[n]
        /\ doc["registries"].m[n]["auth"].t = "list"
        /\ Len(doc["registries"].m[n]["auth"].l) = 1
        /\ doc["registries"].m[n]["auth"].l[1].t = "map"
        /\ {"method", "config"} \subseteq DOMAIN RawAuth(n)}

\* The fields that the variant selected by a method requires.
VariantFields(method) ==
    CredentialsOf(method)
        \cup (IF method \in {"ecr", "ecr-public"} THEN {"region"} ELSE {})

MethodMessage ==
    "Invalid auth method. Supported methods are: basic, bearer, ecr, ecr-public."

\* C17: the method of an auth entry is resolved first and an unrecognized
\* method fails with the error that lists the valid methods; the config
\* payload is validated against the one variant the method selects, so a
\* payload that lacks a field of that variant fails with an error naming the
\* field, whatever other variant it fits.
C17_TwoPhaseAuth ==
    /\ (PastConstruct /\ \E n \in SingleAuth : RawAuth(n)["method"] \notin AuthType) =>
          /\ config = Null
          /\ \E n \in SingleAuth :
                \E i \in 1..Len(err) :
                    err[i] = Err(MethodMessage, <<RawAuth(n)["method"]>>)
    /\ PastConstruct =>
          \A n \in WellFormedAuth :
              \A f \in VariantFields(RawAuth(n)["method"]) \ DOMAIN RawAuth(n)["config"].m :
                  /\ config = Null
                  /\ \E i \in 1..Len(err) : err[i] = Missing(f)
    /\ (PastConstruct /\ config # Null) =>
          \A n \in DOMAIN config.registries :
              /\ config.registries[n].auth.method = RawAuth(n)["method"]
              /\ config.registries[n].auth.config.cls = RawAuth(n)["method"]
              /\ DOMAIN config.registries[n].auth.config.fields
                     = VariantFields(RawAuth(n)["method"])

\* C17 witness: a document whose method is ecr and whose payload has the
\* fields of basic but no region has failed naming region.
C17_Witness ==
    /\ pc = "failed"
    /\ \E n \in WellFormedAuth :
          /\ RawAuth(n)["method"] = "ecr"
          /\ DOMAIN RawAuth(n)["config"].m = {"username", "password"}
    /\ \E i \in 1..Len(err) : err[i] = Missing("region")

\* The registries of the document whose auth is given and is not a list of
\* exactly one entry.
NotOneAuth ==
    {n \in RawRegistryNames :
        /\ "auth" \in DOMAIN doc["registries"].m[n]
        /\ \/ doc["registries"].m[n]["auth"].t # "list"
           \/ Len(doc["registries"].m[n]["auth"].l) # 1}

\* C18: every registry entry of a constructed configuration has exactly one
\* auth entry, the single entry of the list the document gives; a registry
\* whose auth is not a list, is an empty list or is a list of more than one
\* entry fails validation.
C18_OneAuthEntry ==
    /\ (PastConstruct /\ NotOneAuth # {}) => config = Null
    /\ (PastConstruct /\ config # Null) =>
          \A n \in DOMAIN config.registries :
              /\ n \in SingleAuth
              /\ config.registries[n].auth.method = RawAuth(n)["method"]

\* C18 witness: a document whose auth list has two entries has failed.
C18_Witness ==
    /\ pc = "failed"
    /\ \E n \in NotOneAuth :
          /\ doc["registries"].m[n]["auth"].t = "list"
          /\ Len(doc["registries"].m[n]["auth"].l) = 2
    /\ HasError("Auth list must contain exactly one entry.")

\* The index of the first image of the configuration that declares the
\* group.
FirstIndex(g) ==
    CHOOSE i \in 1..Len(config.images) :
        /\ GroupsOf(<<config.images[i]>>) = {g}
        /\ \A j \in 1..(i - 1) : GroupsOf(<<config.images[j]>>) # {g}

\* C19: the rows of the upload matrix are in a determined order: the groups
\* in the order of the first image entry of each (directory, set of
\* pro_services) group and, within a group, the rows in lexicographic order
\* of registry name, however the registries were listed.
C19_UploadOrder ==
    (um.called /\ um.errs = <<>>) =>
        /\ Len(um.keys) = Len(um.include)
        /\ \A i \in 1..Len(um.keys) :
              um.include[i]["registry-uri"].s = config.registries[um.keys[i][3]].uri
        /\ \A i, j \in 1..Len(um.keys) :
              i < j =>
                  IF <<um.keys[i][1], um.keys[i][2]>> = <<um.keys[j][1], um.keys[j][2]>>
                  THEN StrLess(um.keys[i][3], um.keys[j][3])
                  ELSE FirstIndex(<<um.keys[i][1], um.keys[i][2]>>)
                           < FirstIndex(<<um.keys[j][1], um.keys[j][2]>>)

\* C19 witness: the first group lists ecr before acr and its rows are acr,
\* then ecr, followed by the row of the second group.
C19_Witness ==
    /\ um.called /\ um.errs = <<>> /\ Len(um.keys) = 3
    /\ config.images[1].registries = <<Ecr, Acr>>
    /\ um.keys[1] = <<DirA, {}, Acr>>
    /\ um.keys[2] = <<DirA, {}, Ecr>>
    /\ um.keys[3][1] = DirADashFips
    /\ um.include[1]["registry-uri"].s = UriAcr
    /\ um.include[2]["registry-uri"].s = UriEcr

\* The keys every document must declare.
RequiredKeys == {"version", "ghcr", "registries", "images"}

\* The images field of the document is null or a list of entries that are
\* valid, reference only declared registries and misuse no wildcard.
ImagesAcceptable ==
    /\ "images" \in DOMAIN doc
    /\ doc["images"].t \in {"null", "list"}
    /\ \A i \in 1..Len(RawImages) : EntryValid(RawImages[i]) /\ ~Misused(RawImages[i])
    /\ RefsDefined

\* C20: a document that declares registries as null yields a configuration
\* with an empty registries mapping, one that declares images as null yields
\* an empty images list, without error, and with an empty images list both
\* build_matrix() and upload_matrix() return an empty include list.
C20_NullContainers ==
    /\ (PastConstruct /\ RequiredKeys \subseteq DOMAIN doc
           /\ doc["registries"] = Null /\ ImagesAcceptable) =>
          (config # Null /\ DOMAIN config.registries = {})
    /\ (PastConstruct /\ RequiredKeys \subseteq DOMAIN doc
           /\ doc["images"] = Null /\ RegistriesValid) =>
          (config # Null /\ config.images = <<>>)
    /\ (PastConstruct /\ config # Null /\ config.images = <<>>) =>
          /\ bm.called => (bm.errs = <<>> /\ bm.include = <<>>)
          /\ um.called => (um.errs = <<>> /\ um.include = <<>>)
          /\ pc = "done" => Written("build-matrix") = <<>> /\ Written("upload-matrix") = <<>>

\* C20 witness: a run on a document with null registries and null images has
\* ended with two empty matrices.
C20_Witness ==
    /\ pc = "done"
    /\ RequiredKeys \subseteq DOMAIN doc
    /\ doc["registries"] = Null /\ doc["images"] = Null
    /\ DOMAIN config.registries = {} /\ config.images = <<>>
    /\ bm.called /\ um.called /\ bm.include = <<>> /\ um.include = <<>>

ServiceMessage == "Invalid Ubuntu Pro service"

\* The first entry of the pro-services list of a raw image entry that is
\* outside the enumeration, in a one-element list, or the empty list.
FirstInvalidService(m) ==
    LET l == RawServices(m)
        bad == {k \in 1..Len(l) : l[k] \notin UBUNTU_PRO_SERVICES}
    IN IF bad = {} THEN <<>>
       ELSE <<l[CHOOSE k \in bad : \A h \in bad : k <= h]>>

\* C21: every pro_services entry of every image of a constructed
\* configuration belongs to the enumeration of Ubuntu Pro services; a
\* document with an entry outside it fails naming the first invalid entry of
\* the list, and the check precedes the registry cross-reference check: no
\* undefined registry is reported then.
C21_ProServicesChecked ==
    /\ (PastConstruct /\ config # Null) =>
          \A i \in 1..Len(config.images) :
              \A k \in 1..Len(config.images[i].pro_services) :
                  config.images[i].pro_services[k] \in UBUNTU_PRO_SERVICES
    /\ PastConstruct =>
          \A i \in 1..Len(RawImages) :
              FirstInvalidService(RawImages[i]) # <<>> =>
                  /\ config = Null
                  /\ \E e \in 1..Len(err) :
                        err[e] = Err(ServiceMessage, FirstInvalidService(RawImages[i]))
                  /\ \A e \in 1..Len(err) :
                        err[e].msg = ServiceMessage =>
                            \E j \in 1..Len(RawImages) :
                                err[e].args = FirstInvalidService(RawImages[j])
                  /\ ~HasError(RegistryMessage)

\* C21 witness: an image with a valid service, then two invalid ones, and an
\* undefined registry has failed naming the first invalid service.
C21_Witness ==
    /\ pc = "failed"
    /\ Len(RawImages) = 1
    /\ RawServices(RawImages[1]) = <<fips, Bad2, Bad>>
    /\ RawRegistries(RawImages[1]) = <<Zzz>>
    /\ err = <<Err(ServiceMessage, <<Bad2>>)>>

VersionMessage == "Only version 1 of the CI configuration is supported."

Rank(images, i) == Cardinality({j \in FirstDeclarations(images) : j <= i})

\* C23: the rows of the build matrix are in the order of the first image
\* entry of each (directory, set of pro_services) group of the post-expansion
\* images list: the n-th row is the row of the n-th first declaration, and a
\* later declaration of a group neither moves nor replaces it.
C23_BuildOrder ==
    (bm.called /\ bm.errs = <<>>) =>
        /\ Len(bm.include) = Cardinality(FirstDeclarations(config.images))
        /\ \A i \in FirstDeclarations(config.images) :
              LET row == bm.include[Rank(config.images, i)]
              IN /\ row["directory"] = Str(config.images[i].directory)
                 /\ row["pro-services"] =
                        Str(join(<<",">>, sorted(config.images[i].pro_services)))

\* C23 witness: a-fips, then a wildcard that expands to a-fips and a: three
\* images, the second a duplicate of the first, and the rows are a-fips, a.
C23_Witness ==
    /\ bm.called /\ bm.errs = <<>>
    /\ Len(config.images) = 3
    /\ FirstDeclarations(config.images) = {1, 3}
    /\ config.images[1].directory = DirADashFips
    /\ Len(bm.include) = 2
    /\ bm.include[1]["directory"] = Str(DirADashFips)
    /\ bm.include[2]["directory"] = Str(DirA)

\* The rockcraft.yaml of the directory can be read, has the fields
\* image_name_and_tag reads, and its base string ends in a version token.
MetadataUsable(d) == HasMetadata(d) /\ EndsInToken(Chomp(BaseOf(d)))

\* C24: a metadata failure is never skipped: when the metadata of the
\* directory of any image of the configuration is missing or malformed,
\* build_matrix() fails and returns no matrix.
C24_MetadataFailureFatal ==
    (/\ bm.called
     /\ \E i \in 1..Len(config.images) : ~MetadataUsable(config.images[i].directory))
        => (bm.errs # <<>> /\ bm.include = <<>>)

\* C24 witness: the metadata of the first image is usable, the one of the
\* second image is not, and build_matrix() has failed without a matrix.
C24_Witness ==
    /\ bm.called
    /\ Len(config.images) = 2
    /\ MetadataUsable(config.images[1].directory)
    /\ ~MetadataUsable(config.images[2].directory)
    /\ bm.errs # <<>> /\ bm.include = <<>>

\* Every raw image entry passes the pro-services check and references only
\* keys of the validated registries mapping.
EntryChecksPass ==
    /\ \A i \in 1..Len(RawImages) : EntryValid(RawImages[i])
    /\ \A i \in 1..Len(RawImages) : \A k \in 1..Len(RawRegistries(RawImages[i])) :
          /\ RegistriesValid
          /\ RawRegistries(RawImages[i])[k] \in RawRegistryNames

\* The number of "*" entries of the document that come before its first
\* entry that violates the wildcard-form rule.
StarsBeforeMisuse ==
    Cardinality({i \in 1..Len(RawImages) :
                    /\ RawImages[i]["directory"] = <<"*">>
                    /\ \A j \in 1..i : ~Misused(RawImages[j])})

\* C25 as stated: a discovery query is made only when every raw image entry
\* has passed the pro-services check, the cross-reference check and the
\* wildcard-form rule; a document with an entry that violates the
\* wildcard-form rule fails without any query.
C25_DiscoveryAfterAllChecks ==
    PastConstruct =>
        /\ globs > 0 =>
              (EntryChecksPass /\ \A i \in 1..Len(RawImages) : ~Misused(RawImages[i]))
        /\ (\E i \in 1..Len(RawImages) : Misused(RawImages[i])) =>
              (config = Null /\ globs = 0)

\* C25 as amended: a discovery query is made only when every raw image entry
\* has passed the pro-services check and the cross-reference check, and then
\* one query is made for each "*" entry that comes before the first entry
\* that violates the wildcard-form rule; a document with such an entry fails.
C25_DiscoveryAfterEntryChecks ==
    PastConstruct =>
        /\ globs = IF EntryChecksPass THEN StarsBeforeMisuse ELSE 0
        /\ (\E i \in 1..Len(RawImages) : Misused(RawImages[i])) => config = Null

\* C25 witness: a "*" entry followed by an entry that violates the
\* wildcard-form rule has failed with the wildcard error after one query.
C25_Witness ==
    /\ pc = "failed"
    /\ Len(RawImages) = 2
    /\ RawImages[1]["directory"] = <<"*">>
    /\ Misused(RawImages[2])
    /\ HasError(WildcardMessage)
    /\ globs = 1

C27_UploadAfterBuild ==
    (bm.called /\ bm.errs = <<>> /\ um.called) =>
        /\ um.errs = <<>>
        /\ Len(um.keys) = Len(um.include)
        /\ \A i \in 1..Len(um.keys) :
              /\ um.keys[i][3] \in DOMAIN config.registries
              /\ \E j \in 1..Len(bm.include) :
                    /\ bm.include[j]["directory"] = Str(um.keys[i][1])
                    /\ bm.include[j]["name"] = um.include[i]["name"]
                    /\ bm.include[j]["tag"] = um.include[i]["tag"]

\* C27 witness: both builders have returned, the upload matrix with rows for
\* two directories and two registries.
C27_Witness ==
    /\ bm.called /\ bm.errs = <<>> /\ um.called /\ um.errs = <<>>
    /\ Cardinality({um.keys[i][1] : i \in 1..Len(um.keys)}) = 2
    /\ Cardinality({um.keys[i][3] : i \in 1..Len(um.keys)}) = 2
    /\ Len(bm.include) = 2

\* C28: every credential name stored in a constructed configuration (the
\* username, password or token of the auth of a registry, left after the
\* "secrets." prefix is stripped) is a non-empty string.
C28_StoredNonEmpty ==
    (PastConstruct /\ config # Null) =>
        \A n \in DOMAIN config.registries :
            \A f \in DOMAIN config.registries[n].auth.config.fields \cap CredentialFields :
                config.registries[n].auth.config.fields[f] # <<>>

\* C29: each row of the build matrix depends only on the key of its group:
\* its pro-services field is the comma-joined, sorted, duplicate-free list of
\* the set of services of the group and the suffix of its artifact-name is
\* the "-"-joined form of that list, whichever declaration comes first and
\* however it lists the services.
C29_RowFromGroupKey ==
    (bm.called /\ bm.errs = <<>>) =>
        \A i \in 1..Len(bm.include) :
            LET services == sorted_set(bm.keys[i][2])
            IN /\ bm.include[i]["pro-services"] = Str(join(<<",">>, services))
               /\ bm.include[i]["artifact-name"] =
                      Str(artifact_name(bm.keys[i][1]) \o artifact_suffix(services))

\* The key of the upload matrix row that carries a field of the auth variant.
AuthKey(f) == "registry-auth-" \o f

\* The keys every upload matrix row has, whatever the auth method.
CommonRowKeys ==
    {"name", "tag", "artifact-name", "pro-enabled", "registry-uri", "registry-auth-method"}

\* C30: in every row of the upload matrix registry-uri is the uri of the
\* registry of the row, registry-auth-method is the method declared for that
\* registry, the other registry-auth-<field> keys are exactly the fields of
\* the variant of that method, the credentials without their "secrets."
\* prefix and the region as given, and pro-enabled is true exactly when the
\* set of pro_services of the group is not empty.
C30_UploadRowFields ==
    (um.called /\ um.errs = <<>>) =>
        /\ Len(um.keys) = Len(um.include)
        /\ \A i \in 1..Len(um.keys) :
              LET row == um.include[i]
                  n == um.keys[i][3]
              IN /\ n \in WellFormedAuth
                 /\ row["registry-uri"] = doc["registries"].m[n]["uri"]
                 /\ row["registry-auth-method"] = Str(RawAuth(n)["method"])
                 /\ DOMAIN row = CommonRowKeys
                        \cup {AuthKey(f) : f \in VariantFields(RawAuth(n)["method"])}
                 /\ \A f \in CredentialsOf(RawAuth(n)["method"]) :
                       /\ row[AuthKey(f)].t = "str"
                       /\ RawAuth(n)["config"].m[f] = Str(SecretsPrefix \o row[AuthKey(f)].s)
                 /\ RawAuth(n)["method"] \in {"ecr", "ecr-public"} =>
                       row[AuthKey("region")] = RawAuth(n)["config"].m["region"]
                 /\ row["pro-enabled"] = [t |-> "bool", b |-> um.keys[i][2] # {}]

\* C30 witness: an upload matrix row for a registry declared with the method
\* ecr-public carries that method, the region and the two stripped
\* credentials, and pro-enabled is true for its group with a service.
C30_Witness ==
    /\ um.called /\ um.errs = <<>> /\ Len(um.include) = 1
    /\ um.include[1]["registry-auth-method"] = Str("ecr-public")
    /\ um.include[1]["registry-auth-region"] = Str(Region)
    /\ "registry-auth-username" \in DOMAIN um.include[1]
    /\ "registry-auth-token" \notin DOMAIN um.include[1]
    /\ um.include[1]["pro-enabled"].b
    /\ um.keys[1][2] = {fips}

====
